---- MODULE Spec2Model ----
(***************************************************************************)
(* Model of the MQL grouping engine: the selector evaluators and the two   *)
(* evaluation modes of QueryMatcher, and the requirement resolver          *)
(* MQLMatcher.match (src/src/engines/matching/v1.ts); the course validator *)
(* CourseValidator (src/src/schema/courses/validators/v2.ts) and the MQL   *)
(* validator MQLValidator (src/unnamed/part_005).                          *)
(*                                                                         *)
(* JavaScript strings that the code takes apart (course codes, department  *)
(* ids, distribution tags) are sequences of one-character strings, so that *)
(* split, Number, toLowerCase and the template literals are computed.      *)
(* Strings the code only compares or copies (tags, descriptions, messages) *)
(* are TLA+ strings.  An object is a record with exactly the keys the      *)
(* object has, so that `k in o` is k \in DOMAIN o; an object whose         *)
(* identity matters (a catalog entry, a synthesized placeholder, a nested  *)
(* result array) carries its identity in the field addr.                   *)
(***************************************************************************)
EXTENDS Integers, Sequences, FiniteSets, TLC

VARIABLES
    catalog,            \* the courseList argument of the call
    doc,                \* the MQLQueryFile argument of MQLMatcher.match
    qry,                \* the MQLQuery argument of QueryMatcher.match
    rnd,                \* the outcome of the random source behind crypto.randomUUID
    pc,                 \* position of the running call
    sortedRequirements, \* MQLMatcher.match: the sorted copy of the requirements
    errors,             \* MQLMatcher.match: errors collected so far
    usedCourses,        \* MQLMatcher.match: the insertion-ordered Set
    results,            \* MQLMatcher.match: per-requirement results so far
    idx,                \* position of the loop: in sortedRequirements, or in the
                        \* inputs handed to one validator
    h,                  \* effects of the run: allocations, UUID draws, handler calls
    ret,                \* the value returned by the call
    ret2,               \* the value returned by the other call: on the reversed
                        \* selector list, or by the first of two runs
    json,               \* the parsed JSON handed to a validator
    validator,          \* the fields errors and currentPath of the validator
    arrays,             \* the error arrays the validator has allocated, by identity
    kept                \* the results of the validator's earlier calls, as returned

vars == <<catalog, doc, qry, rnd, pc, sortedRequirements, errors, usedCourses,
          results, idx, h, ret, ret2, json, validator, arrays,
          kept>>

-----------------------------------------------------------------------------
(* Bounds of the model *)

MaxCatalog == 2

MaxSelectors == 2

MaxRequirements == 2

-----------------------------------------------------------------------------
(* JavaScript strings and arrays; Array.prototype.filter is SelectSeq *)

Digit == <<"0", "1", "2", "3", "4", "5", "6", "7", "8", "9">>

UpperCase == <<"A", "C", "H", "L", "M", "Q", "R", "S", "U">>

LowerCase == <<"a", "c", "h", "l", "m", "q", "r", "s", "u">>

\* `${n}` for a non-negative integer n: its decimal digits, no leading zero.
RECURSIVE NumToStr(_)
NumToStr(n) ==
    IF n < 10 THEN <<Digit[n + 1]>>
    ELSE Append(NumToStr(n \div 10), Digit[(n % 10) + 1])

\* A character sequence as a TLA+ string (for messages).
RECURSIVE Str(_)
Str(s) == IF s = <<>> THEN "" ELSE s[1] \o Str(Tail(s))

RECURSIVE SplitFrom(_, _, _, _)
SplitFrom(s, sep, i, cur) ==
    IF i > Len(s) THEN <<cur>>
    ELSE IF s[i] = sep THEN <<cur>> \o SplitFrom(s, sep, i + 1, <<>>)
    ELSE SplitFrom(s, sep, i + 1, Append(cur, s[i]))

\* String.prototype.split(sep) for a one-character separator.
split(s, sep) == SplitFrom(s, sep, 1, <<>>)

IsDigit(c) == \E d \in 1..10 : Digit[d] = c

DigitVal(c) == (CHOOSE d \in 1..10 : Digit[d] = c) - 1

RECURSIVE DecVal(_)
DecVal(s) ==
    IF s = <<>> THEN 0
    ELSE DecVal(SubSeq(s, 1, Len(s) - 1)) * 10 + DigitVal(s[Len(s)])

\* Number(str) over the alphabet of the model (digits, letters, no space
\* after split): "" is 0, a digit string is its value, anything else NaN.
Number(s) ==
    IF \A i \in 1..Len(s) : IsDigit(s[i])
    THEN [nan |-> FALSE, val |-> DecVal(s)]
    ELSE [nan |-> TRUE, val |-> 0]

LowerChar(c) ==
    IF \E k \in 1..Len(UpperCase) : UpperCase[k] = c
    THEN LowerCase[CHOOSE k \in 1..Len(UpperCase) : UpperCase[k] = c]
    ELSE c

toLowerCase(s) == [i \in 1..Len(s) |-> LowerChar(s[i])]

\* Array.prototype.includes
includes(arr, x) == \E i \in 1..Len(arr) : arr[i] = x

\* The distribution tags of a course, each in lower case.
lowerAll(arr) == [i \in 1..Len(arr) |-> toLowerCase(arr[i])]

\* The first code of the list has the department dep.
someCodeInDepartment_First(codes, dep) ==
    Len(codes) > 0 /\ split(codes[1], " ")[1] = dep


\* Some code of the list has the department dep before its first space.
someCodeInDepartment(codes, dep) ==
    \E i \in 1..Len(codes) : split(codes[i], " ")[1] = dep

Range(seq) == {seq[i] : i \in 1..Len(seq)}

\* A Set that takes two arrays of the same elements for the same array.
SetAdd_ByContents(set, x) ==
    IF \E i \in 1..Len(set) :
           \/ set[i] = x
           \/ /\ "items" \in DOMAIN set[i]
              /\ "items" \in DOMAIN x
              /\ set[i].items = x.items
    THEN set
    ELSE Append(set, x)


\* Set.prototype.add on an insertion-ordered Set kept as a sequence.
SetAdd(set, x) == IF includes(set, x) THEN set ELSE Append(set, x)

\* A collection that is an array: every element is appended.
SetAddAll_Concat(set, xs) == set \o xs


RECURSIVE SetAddAll(_, _)
SetAddAll(set, xs) ==
    IF xs = <<>> THEN set ELSE SetAddAll(SetAdd(set, xs[1]), Tail(xs))

-----------------------------------------------------------------------------
(* Results (src/src/errors.ts) and serialisation *)

ok(data) == [ok |-> TRUE, data |-> data]

err(error) == [ok |-> FALSE, error |-> error]

\* An exception leaving the call instead of a Result.
thrown(what) == [thrown |-> what]

IsOk(r) == "ok" \in DOMAIN r /\ r.ok

IsErr(r) == "ok" \in DOMAIN r /\ ~r.ok

IsThrown(r) == "thrown" \in DOMAIN r

\* JSON.stringify(mql): an injective rendering of the value.
JSONstringify(v) == ToString(v)

\* String(mql) of a plain object.
StringOf(v) == "[object Object]"

-----------------------------------------------------------------------------
(* Effects of a run: h.alloc is the next fresh object identity, h.drawn the *)
(* number of UUIDs drawn, h.calls the selector handlers invoked, in order.  *)

SelectorKind ==
    {"Class", "Placement", "Tag", "TagCode", "Dist", "DistCode", "Range",
     "RangeDist", "RangeTag", "Query"}

\* crypto.randomUUID(): the next value of the random source of this run.
randomUUID(seed, hh) == <<seed, hh.drawn + 1>>

Out(res, hh) == [res |-> res, h |-> hh]

-----------------------------------------------------------------------------
(* Selector evaluators *)

\* A Class evaluator that looks at the first code of a course only.
queryClass_FirstCode(mql, selector, courseList, hh) ==
    LET fmt == selector.Class.department_id \o <<" ">>
                  \o NumToStr(selector.Class.course_number)
        maybeCourses ==
            SelectSeq(courseList,
                   LAMBDA course : "codes" \in DOMAIN course
                                   /\ Len(course.codes) > 0
                                   /\ course.codes[1] = fmt)
    IN  IF Len(maybeCourses) = 0
        THEN Out(err([requirement |-> JSONstringify(mql),
                      message |-> Str(fmt) \o " not found in catalog"]), hh)
        ELSE Out(ok(maybeCourses), hh)

queryClass(mql, selector, courseList, hh) ==
    IF "Class" \notin DOMAIN selector
    THEN Out(err([requirement |-> StringOf(mql),
                  message |-> "TypeError: Expected .kind = \"Class\""]), hh)
    ELSE
    LET fmt == selector.Class.department_id \o <<" ">>
                  \o NumToStr(selector.Class.course_number)
        maybeCourses ==
            SelectSeq(courseList,
                   LAMBDA course : "codes" \in DOMAIN course
                                   /\ includes(course.codes, fmt))
    IN  IF Len(maybeCourses) = 0
        THEN Out(err([requirement |-> JSONstringify(mql),
                      message |-> Str(fmt) \o " not found in catalog"]), hh)
        ELSE Out(ok(maybeCourses), hh)

\* A Placement evaluator that hands out one shared placeholder per run.
queryPlacement_Shared(mql, selector, courseList, hh) ==
    Out(ok(<<[filled |-> FALSE,
              id |-> randomUUID(rnd, [hh EXCEPT !.drawn = 0]),
              description |-> selector.Placement,
              addr |-> Len(courseList) + 1]>>), hh)

queryPlacement(mql, selector, courseList, hh) ==
    IF "Placement" \notin DOMAIN selector
    THEN Out(err([requirement |-> StringOf(mql),
                  message |-> "TypeError: Expected .kind = \"Placement\""]), hh)
    ELSE
    LET placement == [filled |-> FALSE,
                      id |-> randomUUID(rnd, hh),
                      description |-> selector.Placement,
                      addr |-> hh.alloc]
    IN  Out(ok(<<placement>>),
            [hh EXCEPT !.alloc = @ + 1, !.drawn = @ + 1])

queryDist(mql, selector, courseList, hh) ==
    IF "Dist" \notin DOMAIN selector
    THEN Out(err([requirement |-> StringOf(mql),
                  message |-> "TypeError: Expected .kind = \"Dist\""]), hh)
    ELSE
    LET dist == toLowerCase(selector.Dist)
        maybeCourses ==
            SelectSeq(courseList,
                   LAMBDA course : "dist" \in DOMAIN course
                                   /\ includes(lowerAll(course.dist), dist))
    IN  IF Len(maybeCourses) = 0
        THEN Out(err([requirement |-> JSONstringify(mql),
                      message |-> "DIST(" \o Str(selector.Dist)
                                  \o ") not found in catalog"]), hh)
        ELSE Out(ok(maybeCourses), hh)

queryDistCode(mql, selector, courseList, hh) ==
    IF "DistCode" \notin DOMAIN selector
    THEN Out(err([requirement |-> StringOf(mql),
                  message |-> "TypeError: Expected .kind = \"DistCode\""]), hh)
    ELSE
    LET dist == toLowerCase(selector.DistCode.dist)
        dep == selector.DistCode.code
        courseFilter(course) ==
            IF "dist" \notin DOMAIN course THEN FALSE
            ELSE /\ someCodeInDepartment(course.codes, dep)
                 /\ includes(lowerAll(course.dist), dist)
        maybeCourses == SelectSeq(courseList, courseFilter)
    IN  IF Len(maybeCourses) = 0
        THEN Out(err([requirement |-> JSONstringify(mql),
                      message |-> "DIST_DEPT(" \o Str(selector.DistCode.dist) \o ", "
                                  \o Str(selector.DistCode.code)
                                  \o ") not found in catalog"]), hh)
        ELSE Out(ok(maybeCourses), hh)

\* The body of the loop over one course's codes: the index of the first code
\* at which the callback returns, and what it returns there.
RECURSIVE RangeScan(_, _, _, _)
RangeScan(course, from, to, i) ==
    IF i > Len(course.codes) THEN FALSE
    ELSE
    LET maybeSplit == split(course.codes[i], " ")
    IN  IF Len(maybeSplit) # 2 THEN FALSE
        ELSE
        LET dep == maybeSplit[1]
            num == Number(maybeSplit[2])
        IN  IF dep # from.department_id THEN RangeScan(course, from, to, i + 1)
            ELSE IF /\ ~num.nan
                    /\ from.course_number <= num.val
                    /\ num.val <= to.course_number
                 THEN TRUE
                 ELSE RangeScan(course, from, to, i + 1)

\* A Range evaluator without the test of the two department ids.
queryRange_NoDepartmentTest(mql, selector, courseList, hh) ==
    LET from == selector.Range.from
        to == selector.Range.to
        maybeCourses ==
            SelectSeq(courseList,
                   LAMBDA course : "codes" \in DOMAIN course
                                   /\ RangeScan(course, from, to, 1))
    IN  IF Len(maybeCourses) = 0
        THEN Out(err([requirement |-> JSONstringify(mql),
                      message |-> "RANGE not found in catalog"]), hh)
        ELSE Out(ok(maybeCourses), hh)

queryRange(mql, selector, courseList, hh) ==
    IF "Range" \notin DOMAIN selector
    THEN Out(err([requirement |-> StringOf(mql),
                  message |-> "TypeError: Expected .kind = \"Range\""]), hh)
    ELSE
    LET from == selector.Range.from
        to == selector.Range.to
    IN  IF from.department_id # to.department_id
        THEN Out(err([requirement |-> StringOf(mql),
                      message |-> "RANGE on different department IDs: "
                                  \o Str(from.department_id) \o " != "
                                  \o Str(to.department_id)]), hh)
        ELSE
        LET maybeCourses ==
                SelectSeq(courseList,
                       LAMBDA course : "codes" \in DOMAIN course
                                       /\ RangeScan(course, from, to, 1))
        IN  IF Len(maybeCourses) = 0
            THEN Out(err([requirement |-> JSONstringify(mql),
                          message |-> "RANGE(" \o Str(from.department_id)
                                      \o Str(NumToStr(from.course_number)) \o ", "
                                      \o Str(to.department_id)
                                      \o Str(NumToStr(to.course_number))
                                      \o ") not found in catalog"]), hh)
            ELSE Out(ok(maybeCourses), hh)

queryRangeDist(mql, selector, courseList, hh) ==
    IF "RangeDist" \notin DOMAIN selector
    THEN Out(err([requirement |-> StringOf(mql),
                  message |-> "TypeError: Expected .kind = \"RangeDist\""]), hh)
    ELSE Out(err([requirement |-> StringOf(mql),
                  message |-> "queryRangeDist: unimplemented"]), hh)

queryRangeTag(mql, selector, courseList, hh) ==
    IF "RangeTag" \notin DOMAIN selector
    THEN Out(err([requirement |-> StringOf(mql),
                  message |-> "TypeError: Expected .kind = \"RangeTag\""]), hh)
    ELSE Out(err([requirement |-> StringOf(mql),
                  message |-> "queryRangeTag: unimplemented"]), hh)

\* A Tag evaluator without the test for an empty match.
queryTag_AllowEmpty(mql, selector, courseList, hh) ==
    Out(ok(SelectSeq(courseList,
                  LAMBDA course : "tags" \in DOMAIN course
                                  /\ includes(course.tags, selector.Tag))), hh)

queryTag(mql, selector, courseList, hh) ==
    IF "Tag" \notin DOMAIN selector
    THEN Out(err([requirement |-> StringOf(mql),
                  message |-> "TypeError: Expected .kind = \"Tag\""]), hh)
    ELSE
    LET tag == selector.Tag
        maybeCourses ==
            SelectSeq(courseList,
                   LAMBDA course : "tags" \in DOMAIN course
                                   /\ includes(course.tags, tag))
    IN  IF Len(maybeCourses) = 0
        THEN Out(err([requirement |-> JSONstringify(mql),
                      message |-> "TAG(" \o tag \o ") not found in catalog"]), hh)
        ELSE Out(ok(maybeCourses), hh)

queryTagCode(mql, selector, courseList, hh) ==
    IF "TagCode" \notin DOMAIN selector
    THEN Out(err([requirement |-> StringOf(mql),
                  message |-> "TypeError: Expected .kind = \"TagCode\""]), hh)
    ELSE
    LET tag == selector.TagCode.tag
        dep == selector.TagCode.code
        maybeCourses ==
            SelectSeq(courseList,
                   LAMBDA course :
                       IF "tags" \notin DOMAIN course THEN FALSE
                       ELSE /\ someCodeInDepartment(course.codes, dep)
                            /\ includes(course.tags, tag))
    IN  IF Len(maybeCourses) = 0
        THEN Out(err([requirement |-> JSONstringify(mql),
                      message |-> "TAG_DEPT(" \o tag \o ", " \o Str(dep)
                                  \o ") not found in catalog"]), hh)
        ELSE Out(ok(maybeCourses), hh)

-----------------------------------------------------------------------------
(* Query evaluator *)

RECURSIVE match(_, _, _, _)

\* A Query evaluator that hands the nested collection on as it is.
queryQuery_Splice(mql, selector, courseList, hh) ==
    match(courseList, selector.Query, FALSE, hh)


queryQuery(mql, selector, courseList, hh) ==
    IF "Query" \notin DOMAIN selector
    THEN Out(err([requirement |-> StringOf(mql),
                  message |-> "TypeError: Expected .kind = \"Range\""]), hh)
    ELSE
    LET query == selector.Query
        result == match(courseList, query, FALSE, hh)
    IN  IF ~IsOk(result.res) THEN result
        ELSE Out(ok(<<[items |-> result.res.data, addr |-> result.h.alloc]>>),
                 [result.h EXCEPT !.alloc = @ + 1])

\* Object.keys(o)[0]; the selectors of the model have at most one key.
FirstKey(o) == IF DOMAIN o = {} THEN "undefined" ELSE CHOOSE k \in DOMAIN o : TRUE

\* The call of the bound table entry for a known key.
Invoke(key, mql, selector, courseList, hh) ==
    CASE key = "Class" -> queryClass(mql, selector, courseList, hh)
      [] key = "Placement" -> queryPlacement(mql, selector, courseList, hh)
      [] key = "Tag" -> queryTag(mql, selector, courseList, hh)
      [] key = "TagCode" -> queryTagCode(mql, selector, courseList, hh)
      [] key = "Dist" -> queryDist(mql, selector, courseList, hh)
      [] key = "DistCode" -> queryDistCode(mql, selector, courseList, hh)
      [] key = "Range" -> queryRange(mql, selector, courseList, hh)
      [] key = "RangeDist" -> queryRangeDist(mql, selector, courseList, hh)
      [] key = "RangeTag" -> queryRangeTag(mql, selector, courseList, hh)
      [] key = "Query" -> queryQuery(mql, selector, courseList, hh)

\* const [key] = Object.keys(query); this.selectorVTable[key].bind(this);
\* handler(mql, query, courseList).  For a key outside the table the lookup is
\* undefined and .bind raises a TypeError before `if (!handler)` is reached;
\* a bound function is never falsy, so that branch returns nothing.
Dispatch(mql, selector, courseList, hh) ==
    LET key == FirstKey(selector)
    IN  IF key \notin SelectorKind
        THEN Out(thrown("TypeError: Cannot read properties of undefined (reading 'bind')"), hh)
        ELSE Invoke(key, mql, selector, courseList,
                    [hh EXCEPT !.calls = Append(@, key)])

\* A flatten loop that goes on after a failure and reports the last error.
RECURSIVE matchFlattenFrom_KeepGoing(_, _, _, _, _)
matchFlattenFrom_KeepGoing(courseList, mql, i, flattened, hh) ==
    IF i > Len(mql.selector) THEN Out(ok(flattened), hh)
    ELSE
    LET parsed == Dispatch(mql, mql.selector[i], courseList, hh)
        rest == matchFlattenFrom_KeepGoing(courseList, mql, i + 1, flattened, parsed.h)
    IN  IF ~IsOk(parsed.res)
        THEN IF IsOk(rest.res) THEN Out(parsed.res, rest.h) ELSE rest
        ELSE matchFlattenFrom_KeepGoing(courseList, mql, i + 1,
                                        SetAddAll(flattened, parsed.res.data), parsed.h)


\* The loop of matchFlatten from selector i on, with the Set built so far.
RECURSIVE matchFlattenFrom(_, _, _, _, _)
matchFlattenFrom(courseList, mql, i, flattened, hh) ==
    IF i > Len(mql.selector) THEN Out(ok(flattened), hh)
    ELSE
    LET parsed == Dispatch(mql, mql.selector[i], courseList, hh)
    IN  IF ~IsOk(parsed.res) THEN parsed
        ELSE matchFlattenFrom(courseList, mql, i + 1,
                              SetAddAll(flattened, parsed.res.data), parsed.h)

\* A flatten mode that returns after its first selector.
matchFlatten_FirstOnly(courseList, mql, hh) ==
    IF Len(mql.selector) = 0 THEN Out(ok(<<>>), hh)
    ELSE LET parsed == Dispatch(mql, mql.selector[1], courseList, hh)
         IN  IF ~IsOk(parsed.res) THEN parsed
             ELSE Out(ok(SetAddAll(<<>>, parsed.res.data)), parsed.h)

matchFlatten(courseList, mql, hh) ==
    matchFlattenFrom(courseList, mql, 1, <<>>, hh)

\* A single-result mode that only refuses the empty list.
matchTop_FirstOnly(courseList, mql, hh) ==
    IF Len(mql.selector) = 0
    THEN Out(err([requirement |-> "MQL structure",
                  message |-> "top level MQL should have one query"]), hh)
    ELSE Dispatch(mql, mql.selector[1], courseList, hh)

matchTop(courseList, mql, hh) ==
    IF Len(mql.selector) # 1
    THEN Out(err([requirement |-> "MQL structure",
                  message |-> "top level MQL should have one query"]), hh)
    ELSE Dispatch(mql, mql.selector[1], courseList, hh)

match(courseList, mql, limitOne, hh) ==
    IF limitOne THEN matchTop(courseList, mql, hh)
    ELSE matchFlatten(courseList, mql, hh)

-----------------------------------------------------------------------------
(* Requirement resolver: MQLMatcher.match *)

\* The comparator handed to sort.
compare(a, b) == b.priority - a.priority

\* Array.prototype.sort is stable: x goes after every element that does not
\* compare greater than it.
RECURSIVE SortInsert(_, _)
SortInsert(sorted, x) ==
    IF sorted = <<>> THEN <<x>>
    ELSE IF compare(sorted[1], x) > 0 THEN <<x>> \o sorted
    ELSE <<sorted[1]>> \o SortInsert(Tail(sorted), x)

\* A sort that puts x before the elements it ties with.
RECURSIVE SortInsertTies(_, _)
SortInsertTies(sorted, x) ==
    IF sorted = <<>> THEN <<x>>
    ELSE IF compare(sorted[1], x) >= 0 THEN <<x>> \o sorted
    ELSE <<sorted[1]>> \o SortInsertTies(Tail(sorted), x)

RECURSIVE SortFromTies(_, _, _)
SortFromTies(arr, i, sorted) ==
    IF i > Len(arr) THEN sorted
    ELSE SortFromTies(arr, i + 1, SortInsertTies(sorted, arr[i]))

sortRequirements_TiesReversed(requirements) == SortFromTies(requirements, 1, <<>>)

RECURSIVE SortFrom(_, _, _)
SortFrom(arr, i, sorted) ==
    IF i > Len(arr) THEN sorted
    ELSE SortFrom(arr, i + 1, SortInsert(sorted, arr[i]))

\* [...mql.requirements].sort((a, b) => b.priority - a.priority)
sortRequirements(requirements) == SortFrom(requirements, 1, <<>>)

\* A resolver that takes claimed courses out of the pool.
CandidatePool_Exclusive(courseList, used) ==
    SelectSeq(courseList, LAMBDA course : ~includes(used, course))

\* The catalog handed to queryMatcher.match for a requirement.
CandidatePool(courseList, used) == courseList

\* A resolver that keeps the first error only.
PushError_KeepFirst(errs, error) == IF errs = <<>> THEN <<error>> ELSE errs

\* errors.push(selectedCourses.error)
PushError(errs, error) == Append(errs, error)

\* results.push({ requirement, selectedCourses: selectedCourses.data })
PushResult(res, requirement, data) ==
    Append(res, [requirement |-> requirement, selectedCourses |-> data])

\* A used-list that is an array, not a Set.
AddUsed_NoDedup(used, data) == used \o data

\* for (const course of selectedCourses.data) usedCourses.add(course)
AddUsed(used, data) == SetAddAll(used, data)

\* A verdict that reports the results it has next to the errors.
Verdict_Partial(res, used, errs) ==
    LET evaluationResult == [results |-> res, allSelectedCourses |-> used]
    IN  IF Len(errs) = 0 THEN ok(evaluationResult)
        ELSE IF Len(res) = 0 THEN err(errs)
        ELSE [ok |-> FALSE, error |-> errs, data |-> evaluationResult]

\* The value returned after the loop.
Verdict(res, used, errs) ==
    LET evaluationResult == [results |-> res, allSelectedCourses |-> used]
    IN  IF Len(errs) = 0 THEN ok(evaluationResult) ELSE err(errs)

-----------------------------------------------------------------------------
(* Inputs of the model *)

CS == <<"C", "S">>

MA == <<"M", "A">>

Class(dep, n) == [department_id |-> dep, course_number |-> n, lab |-> FALSE]

MQLQuery(selectors) ==
    [quantity |-> [Single |-> 1], type |-> "Select", selector |-> selectors]

\* Catalog entries, by kind k, as the object at identity a.
Entry(k, a) ==
    CASE k = 1 -> [codes |-> << <<"C", "S", " ", "1", "0", "1">> >>,
                   tags |-> <<"core">>, dist |-> << <<"Q", "R">> >>, addr |-> a]
      [] k = 2 -> [codes |-> << <<"M", "A", " ", "1", "2", "0">>,
                               <<"C", "S", " ", "2", "0", "1">> >>,
                   tags |-> <<"core", "lab">>, addr |-> a]
      [] k = 3 -> [filled |-> TRUE, id |-> <<0, 0>>, description |-> "AP Calc BC",
                   addr |-> a]
      [] k = 4 -> [codes |-> << <<"C", "S", " ", "0", "1">> >>,
                   tags |-> <<>>, dist |-> << <<"H", "u">>, <<"q", "r">> >>, addr |-> a]
      [] k = 5 -> [codes |-> << <<"C", "S", " ", "1", "0", "1">>,
                               <<"M", "A", " ", "1", "5", "0">> >>,
                   tags |-> <<"lab">>, dist |-> <<>>, addr |-> a]
      [] k = 6 -> [codes |-> << <<"C", "S", "1", "0", "1">>,
                               <<"C", "S", " ", "1", "5", "0">> >>,
                   tags |-> <<"lab">>, addr |-> a]
      [] k = 7 -> [codes |-> << <<"M", "A", " ", "1", "5", "0">>,
                               <<"C", "S", " ", "1", "0", "1">> >>,
                   tags |-> <<"core">>, dist |-> << <<"Q", "R">> >>, addr |-> a]

SeqsUpTo(S, n) == UNION {[1..m -> S] : m \in 0..n}

\* The catalogs of at most MaxCatalog entries of the given kinds; every entry
\* is an object of its own.
Catalogs(kinds) ==
    {[i \in 1..Len(ks) |-> Entry(ks[i], i)] : ks \in SeqsUpTo(kinds, MaxCatalog)}

Seeds == {1, 2}

\* The state of the effects when a call starts on catalog c.
Fresh(c) == [alloc |-> Len(c) + 1, drawn |-> 0, calls |-> <<>>]

Pending == [pending |-> TRUE]

\* No JSON was handed to a validator.
NoData == [t |-> "undefined"]

\* The fields of a validator right after construction.
NewValidator == [errors |-> <<>>, currentPath |-> <<>>]

\* Selectors of the queries handed to QueryMatcher.match.
QSelectors ==
    {[Class |-> Class(CS, 101)],
     [Class |-> Class(MA, 120)],
     [Tag |-> "core"],
     [Placement |-> "AP Calc BC"],
     [Range |-> [from |-> Class(CS, 100), to |-> Class(CS, 199)]],
     [Range |-> [from |-> Class(CS, 100), to |-> Class(MA, 199)]],
     [Query |-> MQLQuery(<<[Class |-> Class(CS, 101)],
                           [Placement |-> "AP Calc BC"]>>)]}

\* Selectors evaluated one at a time, every kind among them.
SSelectors ==
    {[Class |-> Class(CS, 101)],
     [Class |-> Class(CS, 1)],
     [Class |-> Class(CS, 201)],
     [Class |-> Class(CS, 999)],
     [Placement |-> "AP Calc BC"],
     [Tag |-> "core"],
     [Tag |-> "none"],
     [TagCode |-> [tag |-> "core", code |-> CS]],
     [TagCode |-> [tag |-> "lab", code |-> MA]],
     [Dist |-> <<"Q", "R">>],
     [Dist |-> <<"a", "r", "t">>],
     [DistCode |-> [dist |-> <<"q", "r">>, code |-> CS]],
     [Range |-> [from |-> Class(CS, 100), to |-> Class(CS, 199)]],
     [Range |-> [from |-> Class(CS, 1), to |-> Class(CS, 1)]],
     [Range |-> [from |-> Class(MA, 100), to |-> Class(MA, 199)]],
     [Range |-> [from |-> Class(CS, 100), to |-> Class(MA, 199)]],
     [Range |-> [from |-> Class(MA, 100), to |-> Class(CS, 250)]],
     [RangeDist |-> [from |-> Class(CS, 100), to |-> Class(CS, 199),
                     dist |-> <<"Q", "R">>]],
     [RangeTag |-> [from |-> Class(CS, 100), to |-> Class(CS, 199),
                    tag |-> "core"]],
     [Query |-> MQLQuery(<<[Class |-> Class(CS, 101)]>>)],
     [Query |-> MQLQuery(<<[Class |-> Class(CS, 999)]>>)],
     [Query |-> MQLQuery(<<[Placement |-> "AP Calc BC"], [Tag |-> "core"]>>)],
     [Query |-> MQLQuery(<<>>)]}

\* Queries of the requirements handed to MQLMatcher.match.
MQueries ==
    {MQLQuery(<<[Tag |-> "core"]>>),
     MQLQuery(<<[Class |-> Class(CS, 101)]>>),
     MQLQuery(<<[Class |-> Class(CS, 999)]>>),
     MQLQuery(<<[Placement |-> "AP Calc BC"], [Tag |-> "core"]>>),
     MQLQuery(<<[Query |-> MQLQuery(<<[Tag |-> "lab"]>>)],
                [Class |-> Class(CS, 201)]>>),
     MQLQuery(<<[Range |-> [from |-> Class(CS, 100), to |-> Class(MA, 199)]]>>)}

Priorities == {5, 10}

RequirementShapes ==
    {[query |-> q, description |-> "requirement", priority |-> p] :
        q \in MQueries, p \in Priorities}

\* The documents of at most MaxRequirements requirements; every requirement
\* is an object of its own.
Documents ==
    {[version |-> "1.0.0",
      requirements |-> [i \in 1..Len(rs) |->
                           [query |-> rs[i].query,
                            description |-> rs[i].description,
                            priority |-> rs[i].priority,
                            addr |-> i]]] :
        rs \in SeqsUpTo(RequirementShapes, MaxRequirements)}

-----------------------------------------------------------------------------
(* MQLMatcher.match as a state machine *)

Init ==
    /\ catalog \in Catalogs({1, 2})
    /\ doc \in Documents
    /\ qry = MQLQuery(<<>>)
    /\ rnd \in Seeds
    /\ pc = "start"
    /\ sortedRequirements = <<>>
    /\ errors = <<>>
    /\ usedCourses = <<>>
    /\ results = <<>>
    /\ idx = 1
    /\ h = Fresh(catalog)
    /\ ret = Pending
    /\ ret2 = Pending
    /\ json = NoData
    /\ validator = NewValidator
    /\ arrays = <<>>
    /\ kept = <<>>

\* A resolver whose collections are fields of the matcher, set up once.
MatchBegin_KeepsState ==
    /\ pc = "start"
    /\ sortedRequirements' = sortRequirements(doc.requirements)
    /\ idx' = 1
    /\ pc' = "loop"
    /\ UNCHANGED <<json, validator, arrays, kept>>
    /\ UNCHANGED <<catalog, doc, qry, rnd, errors, usedCourses, results, h, ret, ret2>>

\* A resolver that sorts the requirements list of the document itself.
MatchBegin_SortInPlace ==
    /\ pc = "start"
    /\ doc' = [doc EXCEPT !.requirements = sortRequirements(@)]
    /\ sortedRequirements' = sortRequirements(doc.requirements)
    /\ errors' = <<>>
    /\ usedCourses' = <<>>
    /\ results' = <<>>
    /\ idx' = 1
    /\ pc' = "loop"
    /\ UNCHANGED <<json, validator, arrays, kept>>
    /\ UNCHANGED <<catalog, qry, rnd, h, ret, ret2>>

\* Lines 269-279: the locals and the sorted copy.
MatchBegin ==
    /\ pc = "start"
    /\ sortedRequirements' = sortRequirements(doc.requirements)
    /\ errors' = <<>>
    /\ usedCourses' = <<>>
    /\ results' = <<>>
    /\ idx' = 1
    /\ pc' = "loop"
    /\ UNCHANGED <<json, validator, arrays, kept>>
    /\ UNCHANGED <<catalog, doc, qry, rnd, h, ret, ret2>>

\* Lines 281-297: one iteration of the loop over sortedRequirements.
MatchStep ==
    /\ pc = "loop"
    /\ idx <= Len(sortedRequirements)
    /\ LET requirement == sortedRequirements[idx]
           selectedCourses ==
               match(CandidatePool(catalog, usedCourses), requirement.query, FALSE, h)
       IN  /\ h' = selectedCourses.h
           /\ IF IsThrown(selectedCourses.res)
              THEN /\ pc' = "thrown"
                   /\ ret' = selectedCourses.res
                   /\ UNCHANGED <<errors, results, usedCourses, idx>>
              ELSE IF ~IsOk(selectedCourses.res)
              THEN /\ errors' = PushError(errors, selectedCourses.res.error)
                   /\ idx' = idx + 1
                   /\ UNCHANGED <<results, usedCourses, pc, ret>>
              ELSE /\ results' = PushResult(results, requirement,
                                            selectedCourses.res.data)
                   /\ usedCourses' = AddUsed(usedCourses, selectedCourses.res.data)
                   /\ idx' = idx + 1
                   /\ UNCHANGED <<errors, pc, ret>>
    /\ UNCHANGED <<json, validator, arrays, kept>>
    /\ UNCHANGED <<catalog, doc, qry, rnd, sortedRequirements, ret2>>

\* Lines 299-308: the verdict.
MatchReturn ==
    /\ pc = "loop"
    /\ idx > Len(sortedRequirements)
    /\ ret' = Verdict(results, usedCourses, errors)
    /\ pc' = "done"
    /\ UNCHANGED <<json, validator, arrays, kept>>
    /\ UNCHANGED <<catalog, doc, qry, rnd, sortedRequirements, errors, usedCourses,
                   results, idx, h, ret2>>

Next == MatchBegin \/ MatchStep \/ MatchReturn

Spec == Init /\ [][Next]_vars

-----------------------------------------------------------------------------
(* QueryMatcher.match called on a query, in either mode, and again on the   *)
(* query with its selector list reversed                                   *)

NoDocument == [version |-> "1.0.0", requirements |-> <<>>]

Reverse(seq) == [i \in 1..Len(seq) |-> seq[Len(seq) + 1 - i]]

Reversed(q) == [q EXCEPT !.selector = Reverse(@)]

InitQuery ==
    /\ catalog \in Catalogs({1, 2, 3})
    /\ doc = NoDocument
    /\ qry \in {MQLQuery(sels) : sels \in SeqsUpTo(QSelectors, MaxSelectors)}
    /\ rnd \in Seeds
    /\ pc = "start"
    /\ sortedRequirements = <<>>
    /\ errors = <<>>
    /\ usedCourses = <<>>
    /\ results = <<>>
    /\ idx = 1
    /\ h = Fresh(catalog)
    /\ ret = Pending
    /\ ret2 = Pending
    /\ json = NoData
    /\ validator = NewValidator
    /\ arrays = <<>>
    /\ kept = <<>>

\* queryMatcher.match(courseList, mql)
CallMatchFlatten ==
    /\ pc = "start"
    /\ LET out == match(catalog, qry, FALSE, h)
       IN  ret' = out.res /\ h' = out.h
    /\ pc' = "flattened"
    /\ UNCHANGED <<json, validator, arrays, kept>>
    /\ UNCHANGED <<catalog, doc, qry, rnd, sortedRequirements, errors, usedCourses,
                   results, idx, ret2>>

\* queryMatcher.match(courseList, mql, true)
CallMatchTop ==
    /\ pc = "start"
    /\ LET out == match(catalog, qry, TRUE, h)
       IN  ret' = out.res /\ h' = out.h
    /\ pc' = "top"
    /\ UNCHANGED <<json, validator, arrays, kept>>
    /\ UNCHANGED <<catalog, doc, qry, rnd, sortedRequirements, errors, usedCourses,
                   results, idx, ret2>>

\* A second call of the same matcher, on the reversed selector list.
CallReversed ==
    /\ pc = "flattened"
    /\ LET out == match(catalog, Reversed(qry), FALSE, h)
       IN  ret2' = out.res /\ h' = out.h
    /\ pc' = "both"
    /\ UNCHANGED <<json, validator, arrays, kept>>
    /\ UNCHANGED <<catalog, doc, qry, rnd, sortedRequirements, errors, usedCourses,
                   results, idx, ret>>

NextQuery == CallMatchFlatten \/ CallMatchTop \/ CallReversed

SpecQuery == InitQuery /\ [][NextQuery]_vars

-----------------------------------------------------------------------------
(* The selector evaluators called on one selector each *)

InitSelector ==
    /\ catalog \in Catalogs({1, 2, 3, 4, 5, 6, 7})
    /\ doc = NoDocument
    /\ qry \in {MQLQuery(<<sel>>) : sel \in SSelectors}
    /\ rnd \in Seeds
    /\ pc = "start"
    /\ sortedRequirements = <<>>
    /\ errors = <<>>
    /\ usedCourses = <<>>
    /\ results = <<>>
    /\ idx = 1
    /\ h = Fresh(catalog)
    /\ ret = Pending
    /\ ret2 = Pending
    /\ json = NoData
    /\ validator = NewValidator
    /\ arrays = <<>>
    /\ kept = <<>>

TheSelector == qry.selector[1]

Evaluated(key, out) ==
    /\ pc = "start"
    /\ FirstKey(TheSelector) = key
    /\ ret' = out.res
    /\ h' = out.h
    /\ pc' = "evaluated"
    /\ UNCHANGED <<json, validator, arrays, kept>>
    /\ UNCHANGED <<catalog, doc, qry, rnd, sortedRequirements, errors, usedCourses,
                   results, idx, ret2>>

EvalClass == Evaluated("Class", queryClass(qry, TheSelector, catalog, h))

EvalPlacement == Evaluated("Placement", queryPlacement(qry, TheSelector, catalog, h))

EvalTag == Evaluated("Tag", queryTag(qry, TheSelector, catalog, h))

EvalTagCode == Evaluated("TagCode", queryTagCode(qry, TheSelector, catalog, h))

EvalDist == Evaluated("Dist", queryDist(qry, TheSelector, catalog, h))

EvalDistCode == Evaluated("DistCode", queryDistCode(qry, TheSelector, catalog, h))

EvalRange == Evaluated("Range", queryRange(qry, TheSelector, catalog, h))

EvalRangeDist == Evaluated("RangeDist", queryRangeDist(qry, TheSelector, catalog, h))

EvalRangeTag == Evaluated("RangeTag", queryRangeTag(qry, TheSelector, catalog, h))

EvalQuery == Evaluated("Query", queryQuery(qry, TheSelector, catalog, h))

NextSelector ==
    \/ EvalClass
    \/ EvalPlacement
    \/ EvalTag
    \/ EvalTagCode
    \/ EvalDist
    \/ EvalDistCode
    \/ EvalRange
    \/ EvalRangeDist
    \/ EvalRangeTag
    \/ EvalQuery

SpecSelector == InitSelector /\ [][NextSelector]_vars

-----------------------------------------------------------------------------
(* MQLMatcher.match called a second time on the same catalog and document  *)

\* Queries of the requirements of a document that is resolved twice.
RerunQueries ==
    {MQLQuery(<<[Tag |-> "core"]>>),
     MQLQuery(<<[Class |-> Class(CS, 999)]>>),
     MQLQuery(<<[Placement |-> "AP Calc BC"], [Tag |-> "core"]>>),
     MQLQuery(<<[Query |-> MQLQuery(<<[Placement |-> "AP Calc BC"]>>)],
                [Class |-> Class(CS, 201)]>>)}

RerunDocuments ==
    {[version |-> "1.0.0",
      requirements |-> [i \in 1..Len(rs) |->
                           [query |-> rs[i].query,
                            description |-> rs[i].description,
                            priority |-> rs[i].priority,
                            addr |-> i]]] :
        rs \in SeqsUpTo({[query |-> q, description |-> "requirement", priority |-> p] :
                            q \in RerunQueries, p \in Priorities},
                        MaxRequirements)}

InitRerun ==
    /\ catalog \in Catalogs({1, 2})
    /\ doc \in RerunDocuments
    /\ qry = MQLQuery(<<>>)
    /\ rnd \in Seeds
    /\ pc = "start"
    /\ sortedRequirements = <<>>
    /\ errors = <<>>
    /\ usedCourses = <<>>
    /\ results = <<>>
    /\ idx = 1
    /\ h = Fresh(catalog)
    /\ ret = Pending
    /\ ret2 = Pending
    /\ json = NoData
    /\ validator = NewValidator
    /\ arrays = <<>>
    /\ kept = <<>>

\* The caller keeps the returned value and calls match(courseList, mql) again:
\* the objects of the first run stay allocated, and the random source is
\* wherever it is by then.
Rerun ==
    /\ pc = "done"
    /\ "pending" \in DOMAIN ret2
    /\ ret2' = ret
    /\ ret' = Pending
    /\ rnd' \in Seeds
    /\ h' = [h EXCEPT !.drawn = 0, !.calls = <<>>]
    /\ pc' = "start"
    /\ UNCHANGED <<json, validator, arrays, kept>>
    /\ UNCHANGED <<catalog, doc, qry, sortedRequirements, errors, usedCourses,
                   results, idx>>

NextRerun == MatchBegin \/ MatchStep \/ MatchReturn \/ Rerun

SpecRerun == InitRerun /\ [][NextRerun]_vars

-----------------------------------------------------------------------------
(* QueryMatcher.match and MQLMatcher.match on a query that no validator has *)
(* seen: some selectors have a key that is no selector kind, or no key      *)

\* The object {}.
NoKey == [k \in {} |-> TRUE]

USelectors ==
    {[Class |-> Class(CS, 101)],
     [Tag |-> "core"],
     [Elective |-> "any"],
     NoKey}

InitUnvalidated ==
    /\ catalog \in Catalogs({1, 2})
    /\ qry \in {MQLQuery(sels) : sels \in SeqsUpTo(USelectors, MaxSelectors)}
    /\ doc = [version |-> "1.0.0",
              requirements |-> <<[query |-> qry, description |-> "requirement",
                                  priority |-> 10, addr |-> 1]>>]
    /\ rnd \in Seeds
    /\ pc = "start"
    /\ sortedRequirements = <<>>
    /\ errors = <<>>
    /\ usedCourses = <<>>
    /\ results = <<>>
    /\ idx = 1
    /\ h = Fresh(catalog)
    /\ ret = Pending
    /\ ret2 = Pending
    /\ json = NoData
    /\ validator = NewValidator
    /\ arrays = <<>>
    /\ kept = <<>>

NextUnvalidated ==
    \/ CallMatchFlatten
    \/ CallMatchTop
    \/ MatchBegin
    \/ MatchStep
    \/ MatchReturn

SpecUnvalidated == InitUnvalidated /\ [][NextUnvalidated]_vars

-----------------------------------------------------------------------------
(* MQLMatcher.match on documents whose queries carry Query selectors, the   *)
(* same nested query more than once among them                              *)

GroupDocuments ==
    {[version |-> "1.0.0",
      requirements |-> [i \in 1..Len(qs) |->
                           [query |-> qs[i],
                            description |-> "requirement",
                            priority |-> 10,
                            addr |-> i]]] :
        qs \in SeqsUpTo({MQLQuery(sels) :
                             sels \in SeqsUpTo({[Query |-> MQLQuery(<<[Tag |-> "core"]>>)],
                                                [Tag |-> "core"]},
                                               MaxSelectors)},
                        MaxRequirements)}

InitGroups ==
    /\ catalog \in Catalogs({1})
    /\ doc \in GroupDocuments
    /\ qry = MQLQuery(<<>>)
    /\ rnd = 1
    /\ pc = "start"
    /\ sortedRequirements = <<>>
    /\ errors = <<>>
    /\ usedCourses = <<>>
    /\ results = <<>>
    /\ idx = 1
    /\ h = Fresh(catalog)
    /\ ret = Pending
    /\ ret2 = Pending
    /\ json = NoData
    /\ validator = NewValidator
    /\ arrays = <<>>
    /\ kept = <<>>

NextGroups == MatchBegin \/ MatchStep \/ MatchReturn

SpecGroups == InitGroups /\ [][NextGroups]_vars

-----------------------------------------------------------------------------
(* Course validator: CourseValidator, src/src/schema/courses/validators/v2.ts *)
(* A parsed JSON value is a record with its JavaScript type in t and, by    *)
(* type, its characters, its elements, its fields or its fraction num/den.  *)

JString(s) == [t |-> "string", chars |-> s]

JNumber(n, d) == [t |-> "number", num |-> n, den |-> d]

JArray(a) == [t |-> "array", elems |-> a]

JObject(o) == [t |-> "object", fields |-> o]

JNull == [t |-> "null"]

Undefined == [t |-> "undefined"]

\* typeof value
typeof(x) == IF x.t \in {"array", "object", "null"} THEN "object" ELSE x.t

\* Array.isArray(value)
isArray(x) == x.t = "array"

isObject(x) == typeof(x) = "object" /\ x.t # "null" /\ ~isArray(x)

isStringArray(x) ==
    isArray(x) /\ \A i \in 1..Len(x.elems) : typeof(x.elems[i]) = "string"

\* Number.isInteger(value)
isInteger(x) == typeof(x) = "number" /\ x.num % x.den = 0

\* key in object
has(o, key) == key \in DOMAIN o.fields

\* object.key
get(o, key) == IF has(o, key) THEN o.fields[key] ELSE Undefined

\* The strings of an array of strings.
strings(x) == [i \in 1..Len(x.elems) |-> x.elems[i].chars]

\* The number of digits of s from position i on.
RECURSIVE DigitRun(_, _)
DigitRun(s, i) ==
    IF i <= Len(s) /\ IsDigit(s[i]) THEN 1 + DigitRun(s, i + 1) ELSE 0

RECURSIVE Pow10(_)
Pow10(n) == IF n = 0 THEN 1 ELSE 10 * Pow10(n - 1)

\* parseFloat(str) over digits, '.' and letters: the value of the longest
\* prefix of the form digits[.digits], NaN when that prefix has no digit.
parseFloat(s) ==
    LET a == DigitRun(s, 1)
        b == IF a < Len(s) /\ s[a + 1] = "." THEN DigitRun(s, a + 2) ELSE 0
    IN  IF a + b = 0 THEN [nan |-> TRUE, num |-> 0, den |-> 1]
        ELSE [nan |-> FALSE,
              num |-> DecVal(SubSeq(s, 1, a) \o SubSeq(s, a + 2, a + 1 + b)),
              den |-> Pow10(b)]

\* Array.prototype.join
RECURSIVE join(_, _)
join(path, sep) ==
    IF path = <<>> THEN ""
    ELSE IF Len(path) = 1 THEN path[1]
    ELSE path[1] \o sep \o join(Tail(path), sep)

pushPath(st, segment) == [st EXCEPT !.currentPath = Append(@, segment)]

popPath(st) == [st EXCEPT !.currentPath = SubSeq(@, 1, Len(@) - 1)]

addError(st, message) ==
    [st EXCEPT !.errors =
        Append(@, [path |-> join(st.currentPath, "."), message |-> message])]

\* Returns the joined code, or null (flat.null) after recording an error.
validateAndMapCourseCode(code, st) ==
    IF ~isObject(code)
    THEN [null |-> TRUE, st |-> addError(st, "Course code entry must be an object")]
    ELSE IF ~has(code, "department")
    THEN [null |-> TRUE, st |-> addError(st, "Missing 'department' field")]
    ELSE IF typeof(get(code, "department")) # "string"
    THEN [null |-> TRUE, st |-> addError(st, "'department' must be a string")]
    ELSE IF ~has(code, "number")
    THEN [null |-> TRUE, st |-> addError(st, "Missing 'number' field")]
    ELSE IF typeof(get(code, "number")) # "string"
    THEN [null |-> TRUE, st |-> addError(st, "'number' must be a string")]
    ELSE [null |-> FALSE,
          flat |-> get(code, "department").chars \o <<" ">> \o get(code, "number").chars,
          st |-> st]

\* course.course_codes.forEach((code, index) => ...) from entry i on.
RECURSIVE CourseCodesFrom(_, _, _, _)
CourseCodesFrom(list, i, codes, st) ==
    IF i > Len(list) THEN [codes |-> codes, st |-> st]
    ELSE
    LET flat == validateAndMapCourseCode(
                    list[i], pushPath(st, "course_codes[" \o ToString(i - 1) \o "]"))
    IN  CourseCodesFrom(list, i + 1,
                        IF flat.null THEN codes ELSE Append(codes, flat.flat),
                        popPath(flat.st))

\* if (condition) this.addError(message)
addErrorIf(st, condition, message) ==
    IF condition THEN addError(st, message) ELSE st

\* Lines 80-92: the codes of the course, flattened.
flattenCourseCodes(course, st) ==
    IF ~has(course, "course_codes")
    THEN [codes |-> <<>>, st |-> addError(st, "Missing 'course_codes' field")]
    ELSE IF ~isArray(get(course, "course_codes"))
    THEN [codes |-> <<>>, st |-> addError(st, "'course_codes' must be an array")]
    ELSE CourseCodesFrom(get(course, "course_codes").elems, 1, <<>>, st)

\* Lines 60-67: credits is a numeric string.
numericCredits(course) ==
    /\ has(course, "credits")
    /\ typeof(get(course, "credits")) = "string"
    /\ ~parseFloat(get(course, "credits").chars).nan

\* Lines 42-77: the tests of the fields other than course_codes, in order.
validateFields(course, st) ==
    LET external_id == get(course, "external_id")
        s1 == addErrorIf(st,
                         /\ has(course, "external_id")
                         /\ (typeof(external_id) # "number" \/ ~isInteger(external_id)),
                         "'external_id' must be an integer")
        s2 == addErrorIf(addErrorIf(s1, ~has(course, "title"), "Missing 'title' field"),
                         /\ has(course, "title")
                         /\ typeof(get(course, "title")) # "string",
                         "'title' must be a string")
        s3 == addErrorIf(s2,
                         /\ has(course, "description")
                         /\ typeof(get(course, "description")) # "string",
                         "'description' must be a string")
        s4 == addErrorIf(addErrorIf(s3, ~has(course, "credits"),
                                    "Missing 'credits' field"),
                         has(course, "credits") /\ ~numericCredits(course),
                         "'credits' must be a numeric string (e.g. \"1.0\")")
        s5 == addErrorIf(s4,
                         /\ has(course, "distributionals")
                         /\ ~isStringArray(get(course, "distributionals")),
                         "'distributionals' must be an array of strings")
    IN  addErrorIf(s5,
                   has(course, "course_tag") /\ ~isStringArray(get(course, "course_tag")),
                   "'course_tag' must be an array of strings")

\* Lines 94-106: the mapped course.
mappedCourse(course, codes) ==
    [codes |-> codes,
     tags |-> IF isStringArray(get(course, "course_tag"))
              THEN strings(get(course, "course_tag")) ELSE <<>>,
     title |-> IF typeof(get(course, "title")) = "string"
               THEN get(course, "title").chars ELSE <<>>,
     credit |-> IF numericCredits(course)
                THEN [num |-> parseFloat(get(course, "credits").chars).num,
                      den |-> parseFloat(get(course, "credits").chars).den]
                ELSE [num |-> 0, den |-> 1],
     seasons |-> <<>>,
     season_codes |-> <<>>,
     version |-> "v2"]
    @@ (IF isStringArray(get(course, "distributionals"))
        THEN "dist" :> strings(get(course, "distributionals")) ELSE NoKey)
    @@ (IF isInteger(get(course, "external_id"))
        THEN "external_id" :> get(course, "external_id") ELSE NoKey)
    @@ (IF typeof(get(course, "description")) = "string"
        THEN "description" :> get(course, "description").chars ELSE NoKey)

validateAndMapCourseWith(course, flattened) ==
    [mapped |-> mappedCourse(course, flattened.codes), st |-> flattened.st]

validateAndMapCourse(course, st) ==
    IF ~isObject(course)
    THEN [mapped |-> NoKey, st |-> addError(st, "Course entry must be an object")]
    ELSE validateAndMapCourseWith(
             course, flattenCourseCodes(course, validateFields(course, st)))

\* list.map((entry, index) => ...) from entry i on.
RECURSIVE validateAndMapCourseListFrom(_, _, _, _)
validateAndMapCourseListFrom(list, i, mapped, st) ==
    IF i > Len(list) THEN [mapped |-> mapped, st |-> st]
    ELSE
    LET entry == validateAndMapCourse(
                     list[i], pushPath(st, "[" \o ToString(i - 1) \o "]"))
    IN  validateAndMapCourseListFrom(list, i + 1, Append(mapped, entry.mapped),
                                     popPath(entry.st))

validateAndMapCourseList(list, st) == validateAndMapCourseListFrom(list, 1, <<>>, st)

\* CourseValidator.validate on a validator whose fields are st.
CourseValidator_validate(value, st) ==
    LET reset == [errors |-> <<>>, currentPath |-> <<>>]
    IN  IF ~isArray(value)
        THEN [res |-> err(<<[path |-> "root",
                             message |-> "Root must be an array of courses"]>>),
              st |-> reset]
        ELSE LET mapped == validateAndMapCourseList(value.elems, reset)
             IN  [res |-> IF Len(mapped.st.errors) = 0 THEN ok(mapped.mapped)
                          ELSE err(mapped.st.errors),
                  st |-> mapped.st]

\* Entries of the parsed JSON handed to the validator, by kind.
RawCode(dep, num) ==
    JObject([department |-> JString(dep), number |-> JString(num)])

RawCourse(k) ==
    CASE k = 1 -> JObject([title |-> JString(<<"A">>),
                           credits |-> JString(<<"1", ".", "0">>),
                           course_codes |-> JArray(<<RawCode(CS, <<"1", "0", "1">>)>>),
                           course_tag |-> JArray(<<JString(<<"c">>)>>)])
      [] k = 2 -> JObject([title |-> JString(<<"A">>),
                           credits |-> JString(<<"1">>),
                           course_codes |-> JArray(<<>>)])
      [] k = 3 -> JObject([title |-> JString(<<"A">>),
                           credits |-> JString(<<".", "5">>)])
      [] k = 4 -> JObject([title |-> JString(<<"A">>),
                           credits |-> JString(<<"1", ".", "0">>),
                           course_codes |-> JArray(<<JObject([department |-> JString(CS)])>>)])
      [] k = 5 -> JString(<<"A">>)
      [] k = 6 -> JObject([title |-> JString(<<"A">>),
                           credits |-> JString(<<"a", "c">>),
                           course_codes |-> JString(<<"C", "S">>),
                           external_id |-> JNumber(3, 2),
                           description |-> JNumber(1, 1),
                           distributionals |-> JArray(<<JNumber(1, 1)>>)])
      [] k = 7 -> JObject([credits |-> JString(<<"1", ".", "0">>),
                           course_codes |->
                               JArray(<<RawCode(CS, <<"1", "0", "1">>),
                                        JNull,
                                        JObject([department |-> JString(CS),
                                                 number |-> JNumber(101, 1)])>>),
                           course_tag |-> JString(<<"c">>)])
      [] k = 8 -> JObject([title |-> JString(<<"A">>),
                           credits |-> JString(<<"4">>),
                           course_codes |-> JArray(<<RawCode(MA, <<"1", "2", "0">>),
                                                     RawCode(CS, <<"2", "0", "1">>)>>),
                           distributionals |-> JArray(<<JString(<<"Q", "R">>)>>),
                           external_id |-> JNumber(7, 1),
                           description |-> JString(<<"A">>)])

RawKinds == 1..8

InitValidator ==
    /\ json \in {JArray([i \in 1..Len(ks) |-> RawCourse(ks[i])]) :
                    ks \in SeqsUpTo(RawKinds, MaxCatalog)}
               \cup {JObject(NoKey), JNull}
    /\ validator = NewValidator
    /\ arrays = <<>>
    /\ kept = <<>>
    /\ catalog = <<>>
    /\ doc = NoDocument
    /\ qry = MQLQuery(<<>>)
    /\ rnd = 1
    /\ pc = "start"
    /\ sortedRequirements = <<>>
    /\ errors = <<>>
    /\ usedCourses = <<>>
    /\ results = <<>>
    /\ idx = 1
    /\ h = Fresh(catalog)
    /\ ret = Pending
    /\ ret2 = Pending

\* validateCourses(data): validate(data) on a new CourseValidator.
ValidateCourses ==
    /\ pc = "start"
    /\ LET out == CourseValidator_validate(json, NewValidator)
       IN  ret' = out.res /\ validator' = out.st
    /\ pc' = "validated"
    /\ UNCHANGED <<catalog, doc, qry, rnd, sortedRequirements, errors, usedCourses,
                   results, idx, h, ret2, json, arrays, kept>>

NextValidator == ValidateCourses

SpecValidator == InitValidator /\ [][NextValidator]_vars

-----------------------------------------------------------------------------
(* MQL validator: MQLValidator, src/schema/mql/validators/v1.ts (kept in    *)
(* src/unnamed/part_005).  The fields errors and currentPath are threaded   *)
(* through the private methods as st, as for the course validator.          *)

JBoolean(b) == [t |-> "boolean", bool |-> b]

isU16(x) ==
    /\ typeof(x) = "number"
    /\ isInteger(x)
    /\ x.num \div x.den >= 0
    /\ x.num \div x.den <= 65535

isValidQueryType(type) ==
    /\ typeof(type) = "string"
    /\ type.chars \in {<<"S", "e", "l", "e", "c", "t">>, <<"L", "i", "m", "i", "t">>}

\* /^\d+\.\d+\.\d+$/.test(version)
isValidVersion(version) ==
    LET parts == split(version, ".")
    IN  /\ Len(parts) = 3
        /\ \A i \in 1..Len(parts) :
               /\ parts[i] # <<>>
               /\ \A j \in 1..Len(parts[i]) : IsDigit(parts[i][j])

\* String.prototype.trim
RECURSIVE trim(_)
trim(s) ==
    LET IsSpace(c) == c \in {" ", "\t", "\n", "\r"}
    IN  IF s # <<>> /\ IsSpace(s[1]) THEN trim(Tail(s))
        ELSE IF s # <<>> /\ IsSpace(s[Len(s)]) THEN trim(SubSeq(s, 1, Len(s) - 1))
        ELSE s

\* a === b for two values of a parsed JSON document: primitives by value, an
\* object or an array never equal to the object or array at another place.
strictEquals(a, b) ==
    /\ a.t = b.t
    /\ CASE a.t = "string" -> a.chars = b.chars
         [] a.t = "number" -> a.num * b.den = b.num * a.den
         [] a.t = "boolean" -> a.bool = b.bool
         [] a.t \in {"null", "undefined"} -> TRUE
         [] OTHER -> FALSE

\* `${value}` for a JSON value; a number is an integer or a non-negative
\* fraction with one decimal digit.
RECURSIVE template(_)
RECURSIVE templateJoin(_, _)
templateJoin(elems, i) ==
    IF i > Len(elems) THEN ""
    ELSE (IF i > 1 THEN "," ELSE "")
         \o (IF elems[i].t \in {"null", "undefined"} THEN "" ELSE template(elems[i]))
         \o templateJoin(elems, i + 1)

template(x) ==
    LET numberToString ==
            IF isInteger(x)
            THEN IF x.num \div x.den < 0 THEN <<"-">> \o NumToStr(0 - (x.num \div x.den))
                 ELSE NumToStr(x.num \div x.den)
            ELSE NumToStr(x.num \div x.den) \o <<".">>
                     \o NumToStr(((x.num % x.den) * 10) \div x.den)
    IN  CASE x.t = "string" -> Str(x.chars)
          [] x.t = "number" -> Str(numberToString)
          [] x.t = "boolean" -> IF x.bool THEN "true" ELSE "false"
          [] x.t = "array" -> templateJoin(x.elems, 1)
          [] x.t = "object" -> "[object Object]"
          [] OTHER -> x.t

\* this.addError(message) when the field is missing or no string.
requireString(o, key, st) ==
    addErrorIf(st, ~has(o, key) \/ typeof(get(o, key)) # "string",
               "'" \o key \o "' must be a string")

\* if (!(key in o)) "Missing" else if (typeof o.key !== "string") "must be".
validateStringField(o, key, st) ==
    IF ~has(o, key) THEN addError(st, "Missing '" \o key \o "' field")
    ELSE addErrorIf(st, typeof(get(o, key)) # "string",
                    "'" \o key \o "' must be a string")

validateClass(cls, st) ==
    LET \* /^[A-Z]{2,4}$/.test(department_id), over the capitals of the model.
        isDepartmentId(s) ==
            /\ Len(s) >= 2
            /\ Len(s) <= 4
            /\ \A i \in 1..Len(s) : \E k \in 1..Len(UpperCase) : UpperCase[k] = s[i]
        validateDepartmentId(s) ==
            IF ~has(cls, "department_id")
            THEN addError(s, "Missing 'department_id' field")
            ELSE IF typeof(get(cls, "department_id")) # "string"
            THEN addError(s, "'department_id' must be a string")
            ELSE addErrorIf(s, ~isDepartmentId(get(cls, "department_id").chars),
                            "Invalid department_id format: "
                                \o template(get(cls, "department_id")))
        validateCourseNumber(s) ==
            IF ~has(cls, "course_number")
            THEN addError(s, "Missing 'course_number' field")
            ELSE addErrorIf(s, ~isU16(get(cls, "course_number")),
                            "'course_number' must be a valid U16")
        validateLab(s) ==
            IF ~has(cls, "lab") THEN addError(s, "Missing 'lab' field")
            ELSE addErrorIf(s, typeof(get(cls, "lab")) # "boolean",
                            "'lab' must be a boolean")
    IN  IF ~isObject(cls) THEN addError(st, "Class must be an object")
        ELSE validateLab(validateCourseNumber(validateDepartmentId(st)))

validateTagCode(tagCode, st) ==
    IF ~isObject(tagCode) THEN addError(st, "TagCode must be an object")
    ELSE requireString(tagCode, "code", requireString(tagCode, "tag", st))

validateDistCode(distCode, st) ==
    IF ~isObject(distCode) THEN addError(st, "DistCode must be an object")
    ELSE requireString(distCode, "code", requireString(distCode, "dist", st))

validateRange(range, st) ==
    LET from == get(range, "from")
        to == get(range, "to")
        \* if (!(key in range)) "Missing" else { pushPath; validateClass; popPath }
        validateRangeEnd(key, s) ==
            IF ~has(range, key) THEN addError(s, "Missing '" \o key \o "' field")
            ELSE popPath(validateClass(get(range, key), pushPath(s, key)))
        \* The test of the range ordering.
        validateRangeOrder(s) ==
            IF /\ isObject(from)
               /\ isObject(to)
               /\ strictEquals(get(from, "department_id"), get(to, "department_id"))
               /\ isU16(get(from, "course_number"))
               /\ isU16(get(to, "course_number"))
            THEN addErrorIf(s,
                     get(from, "course_number").num \div get(from, "course_number").den
                         > get(to, "course_number").num \div get(to, "course_number").den,
                     "Range 'from' course_number ("
                         \o template(get(from, "course_number"))
                         \o ") cannot be greater than 'to' ("
                         \o template(get(to, "course_number")) \o ")")
            ELSE s
    IN  IF ~isObject(range) THEN addError(st, "Range must be an object")
        ELSE validateRangeOrder(validateRangeEnd("to", validateRangeEnd("from", st)))

validateRangeDist(rangeDist, st) ==
    IF ~isObject(rangeDist) THEN addError(st, "RangeDist must be an object")
    ELSE validateStringField(rangeDist, "dist", validateRange(rangeDist, st))

validateRangeTag(rangeTag, st) ==
    IF ~isObject(rangeTag) THEN addError(st, "RangeTag must be an object")
    ELSE validateStringField(rangeTag, "tag", validateRange(rangeTag, st))

validateQuantity(quantity, st) ==
    LET many == get(quantity, "Many")
        validateSingle ==
            addErrorIf(
                addErrorIf(st, ~isU16(get(quantity, "Single")),
                           "'Single' must be a valid U16 (0-65535)"),
                strictEquals(get(quantity, "Single"), JNumber(0, 1)),
                "'Single' quantity must be greater than 0")
        \* The test of from against to.
        validateManyOrder(s) ==
            addErrorIf(s,
                /\ isU16(get(many, "from"))
                /\ isU16(get(many, "to"))
                /\ get(many, "from").num \div get(many, "from").den
                       > get(many, "to").num \div get(many, "to").den,
                "'Many.from' (" \o template(get(many, "from"))
                    \o ") cannot be greater than 'Many.to' ("
                    \o template(get(many, "to")) \o ")")
        validateMany ==
            IF ~isObject(many)
            THEN addError(st, "'Many' must be an object with 'from' and 'to' fields")
            ELSE validateManyOrder(
                     addErrorIf(
                         addErrorIf(st, ~has(many, "from") \/ ~isU16(get(many, "from")),
                                    "'Many.from' must be a valid U16"),
                         ~has(many, "to") \/ ~isU16(get(many, "to")),
                         "'Many.to' must be a valid U16"))
    IN  IF ~isObject(quantity) THEN addError(st, "Quantity must be an object")
        ELSE IF has(quantity, "Single") THEN validateSingle
        ELSE IF has(quantity, "Many") THEN validateMany
        ELSE addError(st, "Quantity must have either 'Single' or 'Many' field")

RECURSIVE validateQuery(_, _)
RECURSIVE validateSelectorsFrom(_, _, _)

\* The switch on the one key of the selector.
validateSelectorOfKind(selector, key, st) ==
    CASE key = "Class" -> validateClass(get(selector, "Class"), st)
      [] key \in {"Placement", "Tag", "Dist"} ->
             addErrorIf(st, typeof(get(selector, key)) # "string",
                        "'" \o key \o "' must be a string")
      [] key = "TagCode" -> validateTagCode(get(selector, "TagCode"), st)
      [] key = "DistCode" -> validateDistCode(get(selector, "DistCode"), st)
      [] key = "Range" -> validateRange(get(selector, "Range"), st)
      [] key = "RangeDist" -> validateRangeDist(get(selector, "RangeDist"), st)
      [] key = "RangeTag" -> validateRangeTag(get(selector, "RangeTag"), st)
      [] key = "Query" ->
             popPath(validateQuery(get(selector, "Query"), pushPath(st, "Query")))
      [] OTHER -> addError(st, "Unknown selector type: " \o key)

validateSelector(selector, st) ==
    LET keys == DOMAIN selector.fields
    IN  IF ~isObject(selector) THEN addError(st, "Selector must be an object")
        ELSE IF Cardinality(keys) # 1
        THEN addError(st, "Selector must have exactly one field")
        ELSE validateSelectorOfKind(selector, CHOOSE key \in keys : TRUE, st)

\* selectors.forEach((selector, index) => ...) from selector i on.
validateSelectorsFrom(selectors, i, st) ==
    IF i > Len(selectors) THEN st
    ELSE validateSelectorsFrom(selectors, i + 1,
             popPath(validateSelector(selectors[i],
                         pushPath(st, "[" \o ToString(i - 1) \o "]"))))

validateSelectors(selectors, st) ==
    validateSelectorsFrom(selectors, 1,
        addErrorIf(st, Len(selectors) = 0, "Selector array cannot be empty"))

validateQuery(query, st) ==
    LET validateQueryQuantity(s) ==
            IF ~has(query, "quantity") THEN addError(s, "Missing 'quantity' field")
            ELSE popPath(validateQuantity(get(query, "quantity"),
                                          pushPath(s, "quantity")))
        validateQueryType(s) ==
            IF ~has(query, "type") THEN addError(s, "Missing 'type' field")
            ELSE addErrorIf(s, ~isValidQueryType(get(query, "type")),
                            "Invalid query type: " \o template(get(query, "type"))
                                \o ". Must be 'Select' or 'Limit'")
        validateQuerySelector(s) ==
            IF ~has(query, "selector") THEN addError(s, "Missing 'selector' field")
            ELSE IF ~isArray(get(query, "selector"))
            THEN addError(s, "'selector' must be an array")
            ELSE popPath(validateSelectors(get(query, "selector").elems,
                                           pushPath(s, "selector")))
    IN  IF ~isObject(query) THEN addError(st, "Query must be an object")
        ELSE validateQuerySelector(validateQueryType(validateQueryQuantity(st)))

validateRequirement(req, st) ==
    LET validateRequirementQuery(s) ==
            IF ~has(req, "query") THEN addError(s, "Missing 'query' field")
            ELSE popPath(validateQuery(get(req, "query"), pushPath(s, "query")))
        validateDescription(s) ==
            IF ~has(req, "description") THEN addError(s, "Missing 'description' field")
            ELSE IF typeof(get(req, "description")) # "string"
            THEN addError(s, "'description' must be a string")
            ELSE addErrorIf(s, trim(get(req, "description").chars) = <<>>,
                            "'description' cannot be empty")
        validatePriority(s) ==
            IF ~has(req, "priority") THEN addError(s, "Missing 'priority' field")
            ELSE addErrorIf(s, ~isU16(get(req, "priority")),
                            "'priority' must be a valid U16 (0-65535)")
    IN  IF ~isObject(req) THEN addError(st, "Requirement must be an object")
        ELSE validatePriority(validateDescription(validateRequirementQuery(st)))

\* requirements.forEach((req, index) => ...) from requirement i on.
RECURSIVE validateRequirementsFrom(_, _, _)
validateRequirementsFrom(requirements, i, st) ==
    IF i > Len(requirements) THEN st
    ELSE validateRequirementsFrom(requirements, i + 1,
             popPath(validateRequirement(requirements[i],
                         pushPath(st, "[" \o ToString(i - 1) \o "]"))))

\* The empty list returns before the popPath of the last line.
validateRequirements(requirements, st) ==
    IF Len(requirements) = 0 THEN pushPath(st, "requirements")
    ELSE popPath(validateRequirementsFrom(requirements, 1,
                                          pushPath(st, "requirements")))

validateQueryFile(value, st) ==
    LET validateVersion(s) ==
            IF ~has(value, "version") THEN addError(s, "Missing 'version' field")
            ELSE IF typeof(get(value, "version")) # "string"
            THEN addError(s, "'version' must be a string")
            ELSE addErrorIf(s, ~isValidVersion(get(value, "version").chars),
                            "Invalid version format: "
                                \o template(get(value, "version")))
        validateFileRequirements(s) ==
            IF ~has(value, "requirements")
            THEN addError(s, "Missing 'requirements' field")
            ELSE IF ~isArray(get(value, "requirements"))
            THEN addError(s, "'requirements' must be an array")
            ELSE validateRequirements(get(value, "requirements").elems, s)
    IN  popPath(validateFileRequirements(validateVersion(pushPath(st, "root"))))

\* A validate that goes on with the errors and the path of the call before.
MQLValidator_validate_NoReset(value, st) ==
    IF ~isObject(value)
    THEN [res |-> err(<<[path |-> "root", message |-> "Root must be an object"]>>),
          st |-> st]
    ELSE LET checked == validateQueryFile(value, st)
         IN  [res |-> IF Len(checked.errors) = 0 THEN ok(value)
                      ELSE err(checked.errors),
              st |-> checked]

\* MQLValidator.validate on a validator whose fields are st.
MQLValidator_validate(value, st) ==
    LET reset == [errors |-> <<>>, currentPath |-> <<>>]
    IN  IF ~isObject(value)
        THEN [res |-> err(<<[path |-> "root", message |-> "Root must be an object"]>>),
              st |-> reset]
        ELSE LET checked == validateQueryFile(value, reset)
             IN  [res |-> IF Len(checked.errors) = 0 THEN ok(value)
                          ELSE err(checked.errors),
                  st |-> checked]

-----------------------------------------------------------------------------
(* One validator object used for several calls: the files of stdin handed  *)
(* to one MQLValidator (src/src/index.ts, lines 45-59), or several course   *)
(* lists handed to one CourseValidator                                      *)

MaxCalls == 2

\* Parsed JSON handed to the MQL validator, by kind.
MQLFile(k) ==
    LET Select == <<"S", "e", "l", "e", "c", "t">>
        RawClass(dep, n) ==
            JObject([department_id |-> JString(dep), course_number |-> JNumber(n, 1),
                     lab |-> JBoolean(FALSE)])
        RawSingle(n) == JObject([Single |-> JNumber(n, 1)])
        RawQuery(quantity, type, selectors) ==
            JObject([quantity |-> quantity, type |-> JString(type),
                     selector |-> JArray(selectors)])
        RawRequirement(query, priority) ==
            JObject([query |-> query, description |-> JString(<<"d">>),
                     priority |-> JNumber(priority, 1)])
        RawFile(requirements) ==
            JObject([version |-> JString(<<"1", ".", "0", ".", "0">>),
                     requirements |-> JArray(requirements)])
        \* A file with one requirement of the given selectors.
        RawFileOf(selectors) ==
            RawFile(<<RawRequirement(RawQuery(RawSingle(1), Select, selectors), 10)>>)
    IN
    CASE k = 1 -> RawFileOf(<<JObject([Class |-> RawClass(CS, 101)])>>)
      [] k = 2 -> RawFile(<<>>)
      [] k = 3 -> JNull
      [] k = 4 -> JObject(NoKey)
      [] k = 5 -> JObject([version |-> JString(<<"1", ".", "0">>),
                           requirements |-> JNumber(1, 1)])
      [] k = 6 -> RawFile(<<JObject([query |->
                                         JObject([type |-> JString(<<"P", "i", "c", "k">>),
                                                  selector |-> JArray(<<>>)]),
                                     description |-> JString(<<" ", " ">>),
                                     priority |-> JNumber(70000, 1)]),
                            JNull>>)
      [] k = 7 -> RawFile(<<RawRequirement(
                                RawQuery(JObject([Many |-> JObject([from |-> JNumber(3, 1),
                                                                    to |-> JNumber(2, 1)])]),
                                         <<"L", "i", "m", "i", "t">>,
                                         <<JObject([Range |-> JObject([from |-> RawClass(CS, 200),
                                                                       to |-> RawClass(CS, 100)])]),
                                           JObject([Elective |-> JString(<<"x">>)]),
                                           JObject([Tag |-> JNumber(1, 1)]),
                                           JObject(NoKey)>>),
                                10)>>)
      [] k = 8 -> RawFileOf(<<JObject([Query |->
                                  RawQuery(RawSingle(0), Select,
                                           <<JObject([Tag |-> JString(<<"t">>)])>>)]),
                              JObject([Query |-> JNull])>>)
      [] k = 9 -> RawFileOf(<<JObject([RangeDist |->
                                  JObject([from |-> RawClass(CS, 100),
                                           to |-> RawClass(MA, 50),
                                           dist |-> JString(<<"Q", "R">>)])]),
                              JObject([RangeTag |->
                                  JObject([from |-> RawClass(CS, 100),
                                           tag |-> JNumber(5, 1)])]),
                              JObject([TagCode |-> JObject([tag |-> JString(<<"t">>)])]),
                              JObject([DistCode |-> JString(<<"x">>)])>>)
      [] k = 10 -> RawFile(<<JObject([query |->
                                 JObject([quantity |-> JObject([Single |-> JNumber(3, 2)]),
                                          type |-> JNumber(1, 1),
                                          selector |->
                                              JArray(<<JObject([Class |->
                                                           JObject([department_id |-> JString(<<"c", "s">>),
                                                                    course_number |-> JNumber(0 - 1, 1),
                                                                    lab |-> JString(<<"n", "o">>)])]),
                                                       JObject([Class |-> JNumber(5, 1)]),
                                                       JObject([Placement |-> JString(<<"A", "P">>)]),
                                                       JObject([Dist |-> JNull])>>)]),
                                      description |-> JNumber(1, 1)])>>)

InitReuse ==
    /\ \/ /\ pc = "mqlValidator"
          /\ json \in {JArray([i \in 1..Len(ks) |-> MQLFile(ks[i])]) :
                          ks \in SeqsUpTo(1..10, MaxCalls)}
       \/ /\ pc = "courseValidator"
          /\ json \in {JArray(fs) :
                          fs \in SeqsUpTo({JArray(<<RawCourse(1)>>),
                                           JArray(<<RawCourse(4)>>),
                                           JArray(<<RawCourse(6)>>),
                                           JArray(<<RawCourse(1), RawCourse(7)>>),
                                           JNull},
                                          MaxCalls)}
    /\ validator = NewValidator
    /\ arrays = <<>>
    /\ kept = <<>>
    /\ catalog = <<>>
    /\ doc = NoDocument
    /\ qry = MQLQuery(<<>>)
    /\ rnd = 1
    /\ sortedRequirements = <<>>
    /\ errors = <<>>
    /\ usedCourses = <<>>
    /\ results = <<>>
    /\ idx = 1
    /\ h = Fresh(catalog)
    /\ ret = Pending
    /\ ret2 = Pending

\* What a call of validate leaves behind: the fields of the validator, the
\* array that `this.errors = []` made and the errors pushed to it, the array
\* that err([error]) or err([...this.errors]) made, and the result with the
\* caller.
Returned(out) ==
    /\ validator' = out.st
    /\ ret' = out.res
    /\ arrays' = arrays \o <<out.st.errors>>
                     \o (IF IsErr(out.res) THEN <<out.res.error>> ELSE <<>>)
    /\ kept' = Append(kept, [res |-> out.res,
                             at |-> IF IsErr(out.res) THEN Len(arrays) + 2 ELSE 0])
    /\ idx' = idx + 1

\* const res = mqlValidator.validate(file), for the next file of stdin.
ValidateFile ==
    /\ pc = "mqlValidator"
    /\ idx <= Len(json.elems)
    /\ Returned(MQLValidator_validate(json.elems[idx], validator))
    /\ UNCHANGED <<catalog, doc, qry, rnd, pc, sortedRequirements, errors,
                   usedCourses, results, h, ret2, json>>

\* validator.validate(jsonNode) on the CourseValidator, for the next list.
ValidateCourseList ==
    /\ pc = "courseValidator"
    /\ idx <= Len(json.elems)
    /\ Returned(CourseValidator_validate(json.elems[idx], validator))
    /\ UNCHANGED <<catalog, doc, qry, rnd, pc, sortedRequirements, errors,
                   usedCourses, results, h, ret2, json>>

NextReuse == ValidateFile \/ ValidateCourseList

SpecReuse == InitReuse /\ [][NextReuse]_vars

-----------------------------------------------------------------------------
(* What a query yields when evaluated alone, and comparison up to the       *)
(* identities created by an evaluation                                     *)

Alone(q) == match(catalog, q, FALSE, Fresh(catalog)).res

IsGroup(e) == "items" \in DOMAIN e

IsSynthesized(e) == ~IsGroup(e) /\ e.addr > Len(catalog)

\* An element without the identity and the id its evaluation gave it.
RECURSIVE Erase(_)
Erase(e) ==
    IF IsGroup(e) THEN [items |-> [i \in 1..Len(e.items) |-> Erase(e.items[i])]]
    ELSE IF IsSynthesized(e) THEN [filled |-> e.filled, description |-> e.description]
    ELSE e

EraseAll(data) == [i \in 1..Len(data) |-> Erase(data[i])]

NoDuplicates(seq) == \A i, j \in 1..Len(seq) : i # j => seq[i] # seq[j]

\* The indices of the document's requirements in the order the resolver must
\* use: priority descending, document order among equal priorities.
Before(i, j) ==
    LET a == doc.requirements[i]
        b == doc.requirements[j]
    IN  a.priority > b.priority \/ (a.priority = b.priority /\ i < j)

RankOf(i) == 1 + Cardinality({j \in 1..Len(doc.requirements) : Before(j, i)})

PriorityOrder ==
    [r \in 1..Len(doc.requirements) |->
        doc.requirements[CHOOSE i \in 1..Len(doc.requirements) : RankOf(i) = r]]

FailsAlone(requirement) == ~IsOk(Alone(requirement.query))

-----------------------------------------------------------------------------
(* Claims about MQLMatcher.match, under Spec *)

\* C1: MQLMatcher.match is all-or-nothing.  It returns success, carrying the
\* results and allSelectedCourses it built, exactly when no requirement of the
\* document fails; when one fails the returned value is the error list alone:
\* a Result with the keys ok and error, each error a MatchingError, and no
\* per-requirement result in it.
C1_AllOrNothing ==
    pc = "done" =>
        /\ IsOk(ret) <=> \A i \in 1..Len(doc.requirements) :
                             ~FailsAlone(doc.requirements[i])
        /\ IsOk(ret) =>
               /\ DOMAIN ret = {"ok", "data"}
               /\ ret.data.results = results
               /\ ret.data.allSelectedCourses = usedCourses
        /\ ~IsOk(ret) =>
               /\ DOMAIN ret = {"ok", "error"}
               /\ ret.error = errors
               /\ \A k \in 1..Len(ret.error) :
                      DOMAIN ret.error[k] = {"requirement", "message"}

\* C1 witness: a run that ends in failure although some requirement succeeded.
C1_Witness ==
    /\ pc = "done"
    /\ ~IsOk(ret)
    /\ Len(results) > 0

\* C2: a failing requirement does not stop resolution.  Every requirement is
\* evaluated, and on failure the error list is the errors of the failing
\* requirements, one each, in priority-sorted order.
C2_ErrorsCollected ==
    pc = "done" =>
        /\ idx = Len(doc.requirements) + 1
        /\ Len(results) + Len(errors) = Len(doc.requirements)
        /\ ~IsOk(ret) =>
               LET failing == SelectSeq(PriorityOrder, FailsAlone)
               IN  /\ Len(ret.error) =
                          Cardinality({i \in 1..Len(doc.requirements) :
                                          FailsAlone(doc.requirements[i])})
                   /\ ret.error =
                          [k \in 1..Len(failing) |-> Alone(failing[k].query).error]

\* C2 witness: two requirements fail with different errors, and the error of
\* the second requirement of the document comes first.
C2_Witness ==
    /\ pc = "done"
    /\ ~IsOk(ret)
    /\ Len(ret.error) = 2
    /\ ret.error[1] # ret.error[2]
    /\ Len(doc.requirements) = 2
    /\ ret.error[1] = Alone(doc.requirements[2].query).error

\* C3: on success the results list has exactly one entry per requirement of
\* the document, ordered by priority descending, and requirements of equal
\* priority keep their order in the document.
C3_ResultsOrdered ==
    (pc = "done" /\ IsOk(ret)) =>
        LET rs == ret.data.results
        IN  /\ Len(rs) = Len(doc.requirements)
            /\ {rs[k].requirement : k \in 1..Len(rs)} = Range(doc.requirements)
            /\ \A i, j \in 1..Len(rs) :
                   i < j =>
                       \/ rs[i].requirement.priority > rs[j].requirement.priority
                       \/ /\ rs[i].requirement.priority = rs[j].requirement.priority
                          /\ rs[i].requirement.addr < rs[j].requirement.addr

\* C3 witness: a successful run in which a lower-priority requirement comes
\* first in the document and is listed last.
C3_Witness ==
    /\ pc = "done"
    /\ IsOk(ret)
    /\ Len(doc.requirements) = MaxRequirements
    /\ doc.requirements[1].priority < doc.requirements[2].priority
    /\ ret.data.results[1].requirement = doc.requirements[2]

\* C3 witness for the tie: two requirements of equal priority and different
\* queries, listed in document order.
C3_TieWitness ==
    /\ pc = "done"
    /\ IsOk(ret)
    /\ \E i, j \in 1..Len(ret.data.results) :
           /\ i < j
           /\ ret.data.results[i].requirement.priority
                  = ret.data.results[j].requirement.priority
           /\ ret.data.results[i].requirement.query
                  # ret.data.results[j].requirement.query

\* C4: requirements are resolved independently against the full catalog.  At
\* every point of the loop, what has been recorded for the requirements
\* processed so far (the selected courses of each, or its error) is what the
\* requirement's query yields when evaluated alone, up to the identities of the
\* placeholders and groups an evaluation creates.
C4_Independent ==
    pc \in {"loop", "done"} =>
        LET processed == SubSeq(sortedRequirements, 1, idx - 1)
            passing == SelectSeq(processed, LAMBDA r : ~FailsAlone(r))
            failing == SelectSeq(processed, FailsAlone)
        IN  /\ Len(results) = Len(passing)
            /\ \A k \in 1..Len(results) :
                   /\ results[k].requirement = passing[k]
                   /\ EraseAll(results[k].selectedCourses)
                          = EraseAll(Alone(passing[k].query).data)
            /\ errors = [k \in 1..Len(failing) |-> Alone(failing[k].query).error]

\* C4 witness: a course selected for a higher-priority requirement is selected
\* again for a later one.
C4_Witness ==
    /\ pc = "done"
    /\ Len(results) >= 2
    /\ results[1].requirement.priority > results[2].requirement.priority
    /\ \E e \in Range(results[1].selectedCourses) :
           /\ e \in Range(catalog)
           /\ e \in Range(results[2].selectedCourses)

\* C5: on success allSelectedCourses is the deduplicated union of the results:
\* it holds every element of every selectedCourses, nothing else, and each
\* element once.
C5_UnionDeduplicated ==
    (pc = "done" /\ IsOk(ret)) =>
        LET all == ret.data.allSelectedCourses
            rs == ret.data.results
        IN  /\ Range(all) = UNION {Range(rs[k].selectedCourses) : k \in 1..Len(rs)}
            /\ NoDuplicates(all)

\* C5 witness: a catalog course selected by two requirements.
C5_Witness ==
    /\ pc = "done"
    /\ IsOk(ret)
    /\ \E i, j \in 1..Len(ret.data.results) :
           /\ i # j
           /\ \E e \in Range(catalog) :
                  /\ e \in Range(ret.data.results[i].selectedCourses)
                  /\ e \in Range(ret.data.results[j].selectedCourses)
                  /\ e \in Range(ret.data.allSelectedCourses)

-----------------------------------------------------------------------------
(* Claims about QueryMatcher.match, under SpecQuery *)

Count(x, seq) == Cardinality({i \in 1..Len(seq) : seq[i] = x})

\* The same elements, each as many times.
SameElements(a, b) ==
    \A x \in Range(a) \cup Range(b) : Count(x, a) = Count(x, b)

\* C6: flatten mode is order-independent on content.  Evaluating a selector
\* list and the reversed list (for two selectors, [A, B] and [B, A]) either
\* fails both times or yields the same deduplicated elements, up to the
\* identities of the placeholders and groups each evaluation creates.
C6_FlattenOrderIndependent ==
    pc = "both" =>
        /\ IsOk(ret) <=> IsOk(ret2)
        /\ IsOk(ret) =>
               /\ SameElements(EraseAll(ret.data), EraseAll(ret2.data))
               /\ NoDuplicates(ret.data)
               /\ NoDuplicates(ret2.data)

\* C6 witness: two different selectors that both match, whose results come in
\* a different order in the two evaluations.
C6_Witness ==
    /\ pc = "both"
    /\ Len(qry.selector) >= 2
    /\ qry.selector[1] # qry.selector[Len(qry.selector)]
    /\ IsOk(ret)
    /\ IsOk(ret2)
    /\ EraseAll(ret.data) # EraseAll(ret2.data)

StructureError ==
    [requirement |-> "MQL structure",
     message |-> "top level MQL should have one query"]

\* C7: single-result mode fails with 'top level MQL should have one query'
\* whenever the selector list does not have exactly one selector, without
\* invoking any selector handler; with exactly one selector it returns what
\* that selector's handler returns, unchanged.
C7_SingleResultMode ==
    pc = "top" =>
        IF Len(qry.selector) # 1
        THEN /\ ret = err(StructureError)
             /\ h = Fresh(catalog)
        ELSE LET own == Invoke(FirstKey(qry.selector[1]), qry, qry.selector[1],
                               catalog, Fresh(catalog))
             IN  /\ ret = own.res
                 /\ Len(h.calls) >= 1
                 /\ h.calls[1] = FirstKey(qry.selector[1])

\* C7 witness: two selectors that both match, and the call still fails.
C7_Witness ==
    /\ pc = "top"
    /\ Len(qry.selector) = 2
    /\ IsOk(Alone(qry))
    /\ ret = err(StructureError)

\* C7 witness for the single selector: its result is returned as a success.
C7_SingleWitness ==
    /\ pc = "top"
    /\ Len(qry.selector) = 1
    /\ IsOk(ret)
    /\ Len(ret.data) >= 2

-----------------------------------------------------------------------------
(* Claims about the selector evaluators, under SpecSelector *)

TheKey == FirstKey(TheSelector)

CatalogKinds == {"Class", "Tag", "TagCode", "Dist", "DistCode", "Range"}

\* The catalog entries among the elements of a result, groups included.
RECURSIVE EntriesIn(_)
EntriesIn(data) ==
    UNION {IF IsGroup(data[i]) THEN EntriesIn(data[i].items)
           ELSE {data[i]} \cap Range(catalog) : i \in 1..Len(data)}

\* The selector, of a kind that selects catalog entries, matches entry e: its
\* evaluation on the catalog that holds e alone succeeds.
Matches(e) ==
    IsOk(Invoke(TheKey, qry, TheSelector, <<e>>, Fresh(<<e>>)).res)

CarriesCode(e, class) ==
    /\ "codes" \in DOMAIN e
    /\ \E i \in 1..Len(e.codes) :
           Str(e.codes[i]) = Str(class.department_id) \o " "
                                 \o ToString(class.course_number)

\* C9: a Class selector returns exactly the catalog Courses whose codes list
\* contains 'DEPT NUM', in catalog order and once each, and fails with
\* '<DEPT NUM> not found in catalog' exactly when no Course carries the code.
C9_ClassExact ==
    (pc = "evaluated" /\ TheKey = "Class") =>
        LET class == TheSelector.Class
            want == {e \in Range(catalog) : CarriesCode(e, class)}
        IN  /\ IsErr(ret) <=> want = {}
            /\ IsErr(ret) =>
                   ret.error.message =
                       Str(class.department_id) \o " "
                           \o ToString(class.course_number)
                           \o " not found in catalog"
            /\ IsOk(ret) =>
                   /\ Range(ret.data) = want
                   /\ ret.data = SelectSeq(catalog, LAMBDA e : e \in want)

\* C9 witness: the code is a later code of the one course selected, and the
\* catalog holds another course.
C9_Witness ==
    /\ pc = "evaluated"
    /\ TheKey = "Class"
    /\ IsOk(ret)
    /\ Len(ret.data) = 1
    /\ Len(catalog) = MaxCatalog
    /\ \A i \in 1..Len(catalog) : "codes" \in DOMAIN catalog[i]
    /\ ~CarriesCode([codes |-> <<ret.data[1].codes[1]>>], TheSelector.Class)

\* C10: a Range selector whose two ends name different departments fails with
\* the 'different department IDs' error, whatever the catalog holds.
C10_CrossDepartmentRange ==
    (/\ pc = "evaluated"
     /\ TheKey = "Range"
     /\ TheSelector.Range.from.department_id # TheSelector.Range.to.department_id) =>
        /\ IsErr(ret)
        /\ ret.error.message =
               "RANGE on different department IDs: "
                   \o Str(TheSelector.Range.from.department_id) \o " != "
                   \o Str(TheSelector.Range.to.department_id)

\* C10 witness: the catalog holds a course with a code in each of the two
\* departments, numbered within the two ends.
C10_Witness ==
    /\ pc = "evaluated"
    /\ TheKey = "Range"
    /\ TheSelector.Range.from.department_id # TheSelector.Range.to.department_id
    /\ IsErr(ret)
    /\ \E e \in Range(catalog) :
           /\ "codes" \in DOMAIN e
           /\ RangeScan(e, TheSelector.Range.from,
                        [TheSelector.Range.to EXCEPT
                            !.department_id = TheSelector.Range.from.department_id], 1)
           /\ RangeScan(e, [TheSelector.Range.from EXCEPT
                               !.department_id = TheSelector.Range.to.department_id],
                        TheSelector.Range.to, 1)

-----------------------------------------------------------------------------
(* Claims about Placement and about the two modes, under SpecQuery *)

\* The Placement selectors of a query, in list order.
PlacementsOf(q) == SelectSeq(q.selector, LAMBDA s : "Placement" \in DOMAIN s)

\* C11: a Placement selector never fails and ignores the catalog.  A flatten
\* evaluation whose selectors are all Placement succeeds on every catalog, and
\* a successful flatten evaluation holds one synthesized ManualFulfillment per
\* Placement selector of the list, in list order: filled = false, description
\* the selector's string, and an id that no other element of the result and no
\* entry of the catalog has.  So n Placement selectors yield n distinct
\* elements, also when their descriptions are the same.
C11_PlacementFresh ==
    pc = "flattened" =>
        LET ps == PlacementsOf(qry)
        IN  /\ Len(ps) = Len(qry.selector) => IsOk(ret)
            /\ IsOk(ret) =>
                   LET made == SelectSeq(ret.data, IsSynthesized)
                   IN  /\ Len(made) = Len(ps)
                       /\ Len(ps) = Len(qry.selector) => ret.data = made
                       /\ \A i \in 1..Len(made) :
                              /\ DOMAIN made[i] = {"filled", "id", "description", "addr"}
                              /\ made[i].filled = FALSE
                              /\ made[i].description = ps[i].Placement
                              /\ \A e \in Range(catalog) :
                                     "id" \in DOMAIN e => e.id # made[i].id
                       /\ \A i, j \in 1..Len(made) :
                              i # j => /\ made[i].id # made[j].id
                                       /\ made[i] # made[j]

\* C11 witness: two Placement selectors with the same description, on a
\* catalog that holds a ManualFulfillment of that description, give two
\* elements.
C11_Witness ==
    /\ pc = "flattened"
    /\ Len(qry.selector) = 2
    /\ Len(PlacementsOf(qry)) = 2
    /\ qry.selector[1] = qry.selector[2]
    /\ \E e \in Range(catalog) :
           "description" \in DOMAIN e /\ e.description = qry.selector[1].Placement
    /\ IsOk(ret)
    /\ Len(ret.data) = 2

-----------------------------------------------------------------------------
(* Claims about two runs of MQLMatcher.match, under SpecRerun *)

\* An element as a value: without the identity of the object an evaluation
\* created for it, with its id.
RECURSIVE Content(_)
Content(e) ==
    IF IsGroup(e) THEN [items |-> [i \in 1..Len(e.items) |-> Content(e.items[i])]]
    ELSE IF IsSynthesized(e)
    THEN [filled |-> e.filled, id |-> e.id, description |-> e.description]
    ELSE e

ContentAll(data) == [i \in 1..Len(data) |-> Content(data[i])]

\* The value returned by MQLMatcher.match, compared by content.
ResultContent(r) ==
    IF ~IsOk(r) THEN r
    ELSE [ok |-> TRUE,
          results |-> [k \in 1..Len(r.data.results) |->
                          [requirement |-> r.data.results[k].requirement,
                           selectedCourses |->
                               ContentAll(r.data.results[k].selectedCourses)]],
          allSelectedCourses |-> ContentAll(r.data.allSelectedCourses)]

\* The same, without the ids of the synthesized placeholders.
ResultShape(r) ==
    IF ~IsOk(r) THEN r
    ELSE [ok |-> TRUE,
          results |-> [k \in 1..Len(r.data.results) |->
                          [requirement |-> r.data.results[k].requirement,
                           selectedCourses |->
                               EraseAll(r.data.results[k].selectedCourses)]],
          allSelectedCourses |-> EraseAll(r.data.allSelectedCourses)]

RECURSIVE HasPlacement(_)
HasPlacement(q) ==
    \E i \in 1..Len(q.selector) :
        \/ "Placement" \in DOMAIN q.selector[i]
        \/ "Query" \in DOMAIN q.selector[i] /\ HasPlacement(q.selector[i].Query)

SecondRunDone == pc = "done" /\ "pending" \notin DOMAIN ret2

\* C12 as stated: two runs of MQLMatcher.match on the same catalog and the
\* same document return the same result: same verdict, same results, same
\* allSelectedCourses.
C12_Deterministic ==
    SecondRunDone => ResultContent(ret) = ResultContent(ret2)

\* C12 amended: two runs on the same catalog and document return the same
\* verdict, the same errors, and the same results and allSelectedCourses
\* except for the ids of the placeholders that Placement selectors synthesize,
\* which are generated anew in each run; when no query of the document holds a
\* Placement selector the two results are the same.
C12_DeterministicUpToIds ==
    SecondRunDone =>
        /\ ResultShape(ret) = ResultShape(ret2)
        /\ (\A i \in 1..Len(doc.requirements) :
                ~HasPlacement(doc.requirements[i].query)) =>
               ResultContent(ret) = ResultContent(ret2)

\* C12 witness: two successful runs whose results differ in the ids of their
\* placeholders only.
C12_Witness ==
    /\ SecondRunDone
    /\ IsOk(ret)
    /\ Len(doc.requirements) = MaxRequirements
    /\ ResultContent(ret) # ResultContent(ret2)
    /\ ResultShape(ret) = ResultShape(ret2)

-----------------------------------------------------------------------------
(* Claims about the inputs of a run *)

\* C13: resolution leaves its inputs unchanged.  No step of MQLMatcher.match
\* (and of the QueryMatcher.match calls it makes), successful or failed,
\* changes the catalog, its entries or their order, nor the query document or
\* the order of its requirements list, nor the query.
C13_InputsUnchanged ==
    [][catalog' = catalog /\ doc' = doc /\ qry' = qry]_vars

\* C13 witness: a finished run whose requirements were evaluated in an order
\* that is not the order of the document, on a catalog with entries.
C13_Witness ==
    /\ pc = "done"
    /\ Len(catalog) = MaxCatalog
    /\ sortedRequirements # doc.requirements
    /\ doc.requirements[1].addr = 1
    /\ Len(results) > 0
    /\ Len(errors) > 0

-----------------------------------------------------------------------------
(* Claims about the flatten pass, under SpecQuery *)

\* What selector i of the query yields when it alone is dispatched.
SelectorAlone(i) == Dispatch(qry, qry.selector[i], catalog, Fresh(catalog))

FailingSelectors == {i \in 1..Len(qry.selector) : ~IsOk(SelectorAlone(i).res)}

FirstFailing == CHOOSE i \in FailingSelectors : \A j \in FailingSelectors : i <= j

\* The handlers invoked by selectors 1..n of the query, in order.
RECURSIVE CallsUpTo(_)
CallsUpTo(n) == IF n = 0 THEN <<>> ELSE CallsUpTo(n - 1) \o SelectorAlone(n).h.calls

\* C14: flatten mode short-circuits.  If some selector of the list fails, the
\* evaluation returns the error of the first failing selector in list order,
\* the handlers invoked are those of the selectors up to and including that
\* one and of no selector after it, and the returned value carries the error
\* alone, no partial collection.  If no selector fails it succeeds.
C14_FlattenShortCircuits ==
    pc = "flattened" =>
        IF FailingSelectors = {} THEN IsOk(ret)
        ELSE /\ ret = SelectorAlone(FirstFailing).res
             /\ IsErr(ret)
             /\ DOMAIN ret = {"ok", "error"}
             /\ h.calls = CallsUpTo(FirstFailing)

\* C14 witness: the first selector fails and the second, which is not
\* evaluated, would fail with another error.
C14_Witness ==
    /\ pc = "flattened"
    /\ FailingSelectors = {1, 2}
    /\ SelectorAlone(1).res # SelectorAlone(2).res
    /\ ret = SelectorAlone(1).res
    /\ Len(h.calls) = 1

\* C14 witness: a selector that matches comes first, and what it matched is
\* not returned.
C14_PartialWitness ==
    /\ pc = "flattened"
    /\ FailingSelectors = {2}
    /\ Len(SelectorAlone(1).res.data) > 0
    /\ IsErr(ret)

\* The results of selectors 1..n of the query, each evaluated alone, one
\* after the other.
RECURSIVE ConcatAlone(_)
ConcatAlone(n) ==
    IF n = 0 THEN <<>> ELSE ConcatAlone(n - 1) \o SelectorAlone(n).res.data

\* The sequence without the later occurrences of a catalog entry.
RECURSIVE FirstOccurrencesFrom(_, _)
FirstOccurrencesFrom(seq, k) ==
    IF k > Len(seq) THEN <<>>
    ELSE IF seq[k] \in Range(catalog) /\ \E j \in 1..(k - 1) : seq[j] = seq[k]
    THEN FirstOccurrencesFrom(seq, k + 1)
    ELSE <<seq[k]>> \o FirstOccurrencesFrom(seq, k + 1)

\* C15: when every selector of a query succeeds, flatten mode returns the
\* union of the selectors' matched elements, ordered by first occurrence over
\* the selectors in list order, with each catalog entry once: a Course matched
\* by two selectors is not repeated.  (Placeholders and groups are compared up
\* to the identities each evaluation creates.)
C15_FlattenUnionOrdered ==
    (pc = "flattened" /\ FailingSelectors = {}) =>
        LET all == ConcatAlone(Len(qry.selector))
        IN  /\ IsOk(ret)
            /\ EraseAll(ret.data) = EraseAll(FirstOccurrencesFrom(all, 1))
            /\ Range(ret.data) \cap Range(catalog) = Range(all) \cap Range(catalog)
            /\ \A e \in Range(catalog) : Count(e, ret.data) <= 1

\* C15 witness: the second selector matches the course the first one matched
\* and another course after it.
C15_Witness ==
    /\ pc = "flattened"
    /\ FailingSelectors = {}
    /\ Len(qry.selector) = 2
    /\ Len(ret.data) >= 2
    /\ Len(ret.data) < Len(ConcatAlone(2))
    /\ ret.data[1] \in Range(SelectorAlone(2).res.data)

-----------------------------------------------------------------------------
(* Claims about Range, TagCode and DistCode, under SpecSelector *)

\* Some code of the entry splits at a space into a department and a number,
\* the department is that of the range and the number lies within its ends.
InRange(e, from, to) ==
    /\ "codes" \in DOMAIN e
    /\ \E i \in 1..Len(e.codes) :
           LET parts == split(e.codes[i], " ")
           IN  /\ Len(parts) = 2
               /\ parts[1] = from.department_id
               /\ ~Number(parts[2]).nan
               /\ from.course_number <= Number(parts[2]).val
               /\ Number(parts[2]).val <= to.course_number

\* C16: a Range selector with the same department on both ends matches a
\* Course if and only if at least one of its codes splits into (department,
\* number) with the department of the range and the number within
\* [from.course_number, to.course_number]; a code that does not have that
\* two-part shape is skipped and the other codes of the course are still
\* tested.
C16_RangeSemantics ==
    (/\ pc = "evaluated"
     /\ TheKey = "Range"
     /\ TheSelector.Range.from.department_id = TheSelector.Range.to.department_id) =>
        LET want == {e \in Range(catalog) :
                        InRange(e, TheSelector.Range.from, TheSelector.Range.to)}
        IN  /\ IsOk(ret) <=> want # {}
            /\ IsOk(ret) => Range(ret.data) = want

\* The department part of a code: what precedes its first space.
DepartmentOf(code) == split(code, " ")[1]

\* The entry carries the target of a TagCode (in tags) or DistCode (in dist,
\* both sides in lower case) selector.
CarriesTarget(e) ==
    IF TheKey = "TagCode"
    THEN /\ "tags" \in DOMAIN e
         /\ \E k \in 1..Len(e.tags) : e.tags[k] = TheSelector.TagCode.tag
    ELSE /\ "dist" \in DOMAIN e
         /\ \E k \in 1..Len(e.dist) :
                toLowerCase(e.dist[k]) = toLowerCase(TheSelector.DistCode.dist)

TheCode == IF TheKey = "TagCode" THEN TheSelector.TagCode.code
           ELSE TheSelector.DistCode.code

\* C17 as stated: TagCode and DistCode test the department of the first code
\* only.  A Course matches if and only if the department part of codes[0] is
\* the selector's code and its tags (resp. lower-cased dist) contain the
\* target; a Course whose first code is in another department does not match.
C17_FirstCodeOnly ==
    (pc = "evaluated" /\ TheKey \in {"TagCode", "DistCode"}) =>
        LET want == {e \in Range(catalog) :
                        /\ CarriesTarget(e)
                        /\ Len(e.codes) > 0
                        /\ DepartmentOf(e.codes[1]) = TheCode}
        IN  /\ IsOk(ret) <=> want # {}
            /\ IsOk(ret) => Range(ret.data) = want

\* C17 amended: TagCode and DistCode test the department of every code.  A
\* Course matches if and only if the department part of at least one of its
\* codes is the selector's code and its tags (resp. lower-cased dist) contain
\* the target, so a Course whose first code is in another department matches
\* through a later code.  The selector returns the matching Courses in catalog
\* order, and an error when there is none.
C17_AnyCode ==
    (pc = "evaluated" /\ TheKey \in {"TagCode", "DistCode"}) =>
        LET want == {e \in Range(catalog) :
                        /\ CarriesTarget(e)
                        /\ \E i \in 1..Len(e.codes) :
                               DepartmentOf(e.codes[i]) = TheCode}
        IN  /\ IsOk(ret) <=> want # {}
            /\ ~IsOk(ret) => IsErr(ret)
            /\ IsOk(ret) => ret.data = SelectSeq(catalog, LAMBDA e : e \in want)

\* C17 witness: a DistCode selector matches a Course whose first code is in
\* another department.
C17_Witness ==
    /\ pc = "evaluated"
    /\ TheKey = "DistCode"
    /\ IsOk(ret)
    /\ \E e \in Range(ret.data) : DepartmentOf(e.codes[1]) # TheCode

\* C17 witness for TagCode.
C17_TagWitness ==
    /\ pc = "evaluated"
    /\ TheKey = "TagCode"
    /\ IsOk(ret)
    /\ \E e \in Range(ret.data) : DepartmentOf(e.codes[1]) # TheCode

-----------------------------------------------------------------------------
(* Claims about the Query selector, under SpecQuery *)

QuerySelectors == SelectSeq(qry.selector, LAMBDA s : "Query" \in DOMAIN s)

\* C18: a Query selector evaluates its nested query in flatten mode.  When the
\* enclosing evaluation succeeds its result holds, for each Query selector of
\* the list and in list order, exactly one group, and that group is the whole
\* result of the nested query evaluated in flatten mode; the nested elements
\* are not elements of the enclosing result on that account.  When the nested
\* query of the first failing selector fails, the enclosing evaluation fails
\* with the nested error, unchanged.
C18_QueryWrapsNested ==
    pc = "flattened" =>
        /\ IsOk(ret) =>
               LET groups == SelectSeq(ret.data, IsGroup)
               IN  /\ Len(groups) = Len(QuerySelectors)
                   /\ \A k \in 1..Len(groups) :
                          /\ IsOk(Alone(QuerySelectors[k].Query))
                          /\ EraseAll(groups[k].items)
                                 = EraseAll(Alone(QuerySelectors[k].Query).data)
                   /\ Len(QuerySelectors) = Len(qry.selector) => ret.data = groups
        /\ (FailingSelectors # {} /\ "Query" \in DOMAIN qry.selector[FirstFailing]) =>
               /\ ~IsOk(Alone(qry.selector[FirstFailing].Query))
               /\ ret = Alone(qry.selector[FirstFailing].Query)

\* C18 witness: a course that is inside the group of a Query selector and,
\* matched by the next selector, also an element of its own.
C18_Witness ==
    /\ pc = "flattened"
    /\ IsOk(ret)
    /\ Len(ret.data) = 2
    /\ IsGroup(ret.data[1])
    /\ Len(ret.data[1].items) = 2
    /\ ret.data[2] \in Range(ret.data[1].items)

\* C18 witness for the failure: the nested query fails after a selector that
\* matched.
C18_FailWitness ==
    /\ pc = "flattened"
    /\ FailingSelectors = {2}
    /\ "Query" \in DOMAIN qry.selector[2]
    /\ IsErr(ret)

-----------------------------------------------------------------------------
(* Claims about structurally invalid selectors, under SpecUnvalidated *)

Unimplemented(selector) ==
    err([requirement |-> JSONstringify(qry),
         message |-> FirstKey(selector) \o " is unimplemented"])

\* C19: a structurally invalid selector is defended against with an error
\* value.  No call raises an exception: matchFlatten, matchTop and
\* MQLMatcher.match each return a Result; and when the first selector of the
\* list (the only one, for matchTop) has a single key that is no selector
\* kind, or has no key, matchFlatten and matchTop return the MatchingError
\* '<key> is unimplemented'.
C19_InvalidSelectorIsErrorValue ==
    /\ pc # "thrown"
    /\ pc \in {"flattened", "top", "done"} => (IsOk(ret) \/ IsErr(ret))
    /\ (/\ pc = "flattened"
        /\ Len(qry.selector) >= 1
        /\ FirstKey(qry.selector[1]) \notin SelectorKind) =>
           ret = Unimplemented(qry.selector[1])
    /\ (/\ pc = "top"
        /\ Len(qry.selector) = 1
        /\ FirstKey(qry.selector[1]) \notin SelectorKind) =>
           ret = Unimplemented(qry.selector[1])

-----------------------------------------------------------------------------
(* Claims about the course validator, under SpecValidator *)

\* An entry of the input is an object whose course_codes is an empty array.
HasEmptyCourseCodes(entry) ==
    /\ isObject(entry)
    /\ has(entry, "course_codes")
    /\ isArray(get(entry, "course_codes"))
    /\ Len(get(entry, "course_codes").elems) = 0

\* C20: every Course of a catalog the course validator accepts has a
\* non-empty codes list, and an input holding a course whose course_codes
\* array is empty is rejected with a validation error.
C20_ValidatedCodesNonEmpty ==
    pc = "validated" =>
        /\ IsOk(ret) => \A i \in 1..Len(ret.data) : Len(ret.data[i].codes) > 0
        /\ (isArray(json) /\ \E i \in 1..Len(json.elems) : HasEmptyCourseCodes(json.elems[i]))
               => IsErr(ret)

-----------------------------------------------------------------------------
(* Claims about nested groups in flatten results, under SpecGroups *)

IsQuerySelector(s) == "Query" \in DOMAIN s

\* The query without its Query selectors.
WithoutQueries(q) ==
    [q EXCEPT !.selector = SelectSeq(@, LAMBDA s : ~IsQuerySelector(s))]

\* The number of Query selectors of the queries of the first k results.
RECURSIVE QuerySelectorsUpTo(_, _)
QuerySelectorsUpTo(rs, k) ==
    IF k = 0 THEN 0
    ELSE QuerySelectorsUpTo(rs, k - 1)
         + Len(SelectSeq(rs[k].requirement.query.selector, IsQuerySelector))

\* C21: flatten mode never deduplicates nested groups.  In every successful
\* flatten result the groups are as many as the Query selectors of the query
\* and are pairwise different elements, whatever they hold; the elements that
\* are no groups are those of the query without its Query selectors, whether
\* or not a group holds them too; and allSelectedCourses holds as many groups
\* as the queries of all requirements have Query selectors.
C21_GroupsNeverDeduplicated ==
    (pc = "done" /\ IsOk(ret)) =>
        LET rs == ret.data.results
            all == ret.data.allSelectedCourses
        IN  /\ Len(rs) = Len(doc.requirements)
            /\ \A k \in 1..Len(rs) :
                   LET selected == rs[k].selectedCourses
                       query == rs[k].requirement.query
                   IN  /\ Len(SelectSeq(selected, IsGroup))
                              = Len(SelectSeq(query.selector, IsQuerySelector))
                       /\ NoDuplicates(selected)
                       /\ SelectSeq(selected, LAMBDA e : ~IsGroup(e))
                              = Alone(WithoutQueries(query)).data
            /\ Len(SelectSeq(all, IsGroup)) = QuerySelectorsUpTo(rs, Len(rs))
            /\ NoDuplicates(all)

\* C21 witness: one result holds two groups of identical contents, another
\* holds a course both as an element and inside a group, and
\* allSelectedCourses holds the three groups.
C21_Witness ==
    /\ pc = "done"
    /\ IsOk(ret)
    /\ Len(ret.data.results) = 2
    /\ LET one == ret.data.results[1].selectedCourses
           two == ret.data.results[2].selectedCourses
       IN  /\ Len(one) = 2
           /\ IsGroup(one[1]) /\ IsGroup(one[2])
           /\ one[1].items = one[2].items
           /\ one[1].items # <<>>
           /\ Len(two) = 2
           /\ IsGroup(two[1])
           /\ two[2] \in Range(catalog)
           /\ two[2] \in Range(two[1].items)
    /\ Len(SelectSeq(ret.data.allSelectedCourses, IsGroup)) = 3

-----------------------------------------------------------------------------
(* Claims about the reuse of a validator, under SpecReuse *)

\* What validate returns for the k-th input on a validator made for it.
OnNewValidator(k) ==
    IF pc = "mqlValidator" THEN MQLValidator_validate(json.elems[k], NewValidator).res
    ELSE CourseValidator_validate(json.elems[k], NewValidator).res

\* C22: a validator can be reused.  After any number of validate calls on one
\* MQLValidator or one CourseValidator, the result each call returned is the
\* result a new validator returns for that call's input, so no error and no
\* path segment of an earlier call is in it, and every error list returned
\* so far still holds what it held when it was returned.
C22_ValidatorReusable ==
    \A k \in 1..Len(kept) :
        /\ kept[k].res = OnNewValidator(k)
        /\ IsErr(kept[k].res) => arrays[kept[k].at] = kept[k].res.error

\* C22 witness: the first call of an MQLValidator was on a file with an empty
\* requirements list and succeeded, the second returned errors.
C22_Witness ==
    /\ pc = "mqlValidator"
    /\ Len(kept) = 2
    /\ isObject(json.elems[1])
    /\ isArray(get(json.elems[1], "requirements"))
    /\ get(json.elems[1], "requirements").elems = <<>>
    /\ IsOk(kept[1].res)
    /\ IsErr(kept[2].res)
    /\ Len(kept[2].res.error) >= 2

\* C22 witness: the early return has left a path segment in the validator.
C22_UnbalancedWitness ==
    /\ pc = "mqlValidator"
    /\ Len(kept) = 1
    /\ IsOk(kept[1].res)
    /\ validator.currentPath = <<"root">>

\* C22 witness: two calls of a CourseValidator that returned different error
\* lists.
C22_CourseWitness ==
    /\ pc = "courseValidator"
    /\ Len(kept) = 2
    /\ IsErr(kept[1].res)
    /\ IsErr(kept[2].res)
    /\ kept[1].res.error # kept[2].res.error
    /\ kept[1].at # kept[2].at

====
